---- MODULE Spec2Model ----
(***************************************************************************)
(* Model of cloudflare-gslb: the DNS backend's ReplaceRecords              *)
(* (pkg/cloudflare, DNSClient) and the per-origin reconciliation cycle     *)
(* (pkg/gslb, Service.checkOrigin).                                        *)
(*                                                                         *)
(* The specifications:                                                     *)
(*   SpecRR      ReplaceRecords called directly on an arbitrary record     *)
(*               list with an arbitrary newContents argument;              *)
(*   Spec        the service: checkOrigin cycles of one origin, which call *)
(*               ReplaceRecords with the selected, family-filtered IPs;    *)
(*   SpecSteady  the same cycles with per-IP health constant, under fair   *)
(*               ticking;                                                  *)
(*   SpecCfg     config.LoadConfig normalizing one decoded origin;         *)
(*   SpecRun     the goroutines of Start / Stop and of RunOneShot, their   *)
(*               select, the service mutex and the notification fan-outs;  *)
(*   SpecRunFair SpecRun under the scheduling its liveness rests on;       *)
(*   SpecNotify  one loop and one notifier, with fan-outs of successive    *)
(*               cycles in flight together;                                *)
(*   SpecKeys    the cycles of several origins on the keyed state store,   *)
(*               the keyed backend clients and the zones' records.         *)
(* A backend request (list, create, delete) is one step, so that every     *)
(* record set a concurrent lister can observe is a state of the model.     *)
(***************************************************************************)
EXTENDS Integers, Sequences, FiniteSets, TLC

\* ------------------------------------------------------------------ bounds
\* Longest record list the provider holds before the first call or cycle.
MaxInitRecords == 2
\* Longest newContents argument of a direct ReplaceRecords call.
MaxDesired == 2
\* Number of direct ReplaceRecords calls in one behaviour of SpecRR.
MaxCalls == 2

\* ------------------------------------------------------- generic helpers
Range(s) == {s[i] : i \in DOMAIN s}

InSeq(x, s) == \E i \in DOMAIN s : s[i] = x

SeqsUpTo(S, n) == UNION {[1..k -> S] : k \in 0..n}

\* The orders in which a Go map with key set S can be ranged over.
RECURSIVE Perms(_)
Perms(S) == IF S = {} THEN {<<>>}
            ELSE UNION {{<<x>> \o p : p \in Perms(S \ {x})} : x \in S}

\* --------------------------------------------------------- record contents
\* Textual contents the model draws from: three IPv4 literals, one IPv6
\* literal, one IPv4-mapped IPv6 literal, an unparseable string and the
\* empty string.
IP4a == "1.1.1.1"
IP4b == "2.2.2.2"
IP4c == "3.3.3.3"
IP6a == "2001:db8::1"
IP4in6 == "::ffff:3.3.3.3"
BadIP == "not-an-ip"
Contents == {IP4a, IP4b, IP4c, IP6a, IP4in6, BadIP, ""}

\* Contents of a record list, as a set.
ContentSet(records) == {records[i].Content : i \in DOMAIN records}

\* IDs of a record list, as a set.
IdSet(records) == {records[i].ID : i \in DOMAIN records}

\* The ID the provider gives a created record: one no current record has.
\* IDs are opaque to the client; the model's provider names a record by its
\* content and the smallest serial number free for that content.
FreshId(recs, content) ==
    <<content, CHOOSE n \in 1..(Len(recs) + 1) :
                   /\ <<content, n>> \notin IdSet(recs)
                   /\ \A m \in 1..(n - 1) : <<content, m>> \in IdSet(recs)>>

\* A provider record list with contents cs, each record named as the
\* provider would have named it on creation in list order.
MkRecords(cs) ==
    [i \in 1..Len(cs) |->
        [ID |-> <<cs[i], Cardinality({j \in 1..i : cs[j] = cs[i]})>>,
         Content |-> cs[i]]]

\* ------------------------------------------------------------------ state
VARIABLES
    mode,          \* "direct": ReplaceRecords driven directly; "service": checkOrigin
                   \* cycles; "config": LoadConfig
    decoded,       \* the origin as decoded from the configuration file
    records,       \* the provider's record list for the origin's (name, type)
    pc,            \* idle; in ReplaceRecords: rr_call, rr_create, rr_delete, rr_ret;
                   \* checked: checkOrigin has returned; in LoadConfig: decoded,
                   \* loaded, load_error
    rr,            \* the frame of the ReplaceRecords call in progress (or just returned)
    ops,           \* create and delete requests issued since the call (or cycle) began
    calls,         \* direct ReplaceRecords calls made so far
    prev,          \* the previous direct call: its desired list and whether it returned nil
    origin,        \* the OriginConfig the service monitors
    notifiers,     \* Service.notifiers
    originStatus,  \* Service.originStatus[originKey]
    cyc,           \* what the running (or last) checkOrigin cycle saw and decided
    notifications, \* the Notify calls started by the running (or last) cycle
    routines,      \* the goroutines Start or RunOneShot launched, one per entry of
                   \* config.Origins: origin key, position, ticker.C, cycle outcome
    checkMutex,    \* Service.checkMutex: 0 when free, else the routine holding it
    stopCh,        \* TRUE once Service.stopCh is closed
    ctxDone,       \* TRUE once the context given to Start / RunOneShot is cancelled
    caller,        \* the goroutine of main: its position and what the call returned
    events,        \* the notification fan-outs whose goroutines have not all ended,
                   \* in the order they were started
    cfgOrigins,    \* config.Origins as (ZoneName, Name, RecordType) entries (SpecKeys)
    dnsClients,    \* Service.dnsClients: origin key -> zone ID of the client
    originStatusMap, \* Service.originStatus: origin key -> OriginStatus
    zoneRecords,   \* the provider's records: (zone ID, name, type) -> contents
    ipHealth       \* the health every probe of an IP finds while health stays
                   \* constant (SpecSteady); empty where each cycle probes anew

svcVars == <<decoded, origin, notifiers, originStatus, cyc, notifications>>
storeVars == <<cfgOrigins, dnsClients, originStatusMap, zoneRecords>>
runVars == <<routines, checkMutex, stopCh, ctxDone, caller, events, storeVars>>
vars == <<mode, decoded, records, pc, rr, ops, calls, prev,
          origin, notifiers, originStatus, cyc, notifications, runVars, ipHealth>>

\* The values of runVars while no Start or RunOneShot call is modelled.
NoCaller == [pc |-> "none", err |-> {}]
\* The values of storeVars where a single origin is modelled.
NoStore ==
    /\ cfgOrigins = <<>>
    /\ dnsClients = <<>>
    /\ originStatusMap = <<>>
    /\ zoneRecords = <<>>

NoRun ==
    /\ NoStore
    /\ routines = <<>>
    /\ checkMutex = 0
    /\ stopCh = FALSE
    /\ ctxDone = FALSE
    /\ caller = NoCaller
    /\ events = <<>>

\* No constant health is laid down: every cycle's probes find what they find.
ProbedAnew == ipHealth = <<>>

\* ------------------------------------------------ pkg/cloudflare: DNSClient
RECURSIVE dedupeLoop(_, _, _)
dedupeLoop(values, i, out) ==
    IF i > Len(values) THEN out
    ELSE IF values[i] = "" \/ InSeq(values[i], out)
         THEN dedupeLoop(values, i + 1, out)
         ELSE dedupeLoop(values, i + 1, Append(out, values[i]))

\* dedupeContents: drops empty strings and repeated values, first occurrence kept.
dedupeContents(values) == dedupeLoop(values, 1, <<>>)

buildContentSet(contents) == Range(contents)

\* groupRecordsByContent: content -> the records holding it, in list order.
groupRecordsByContent(recs) ==
    [c \in ContentSet(recs) |-> SelectSeq(recs, LAMBDA r : r.Content = c)]

existingOf(recordsByContent, content) ==
    IF content \in DOMAIN recordsByContent THEN recordsByContent[content] ELSE <<>>

\* diffRecords, first loop: the desired contents no record holds, and every
\* record but the first of a desired content held more than once.
RECURSIVE diffDesired(_, _, _, _, _)
diffDesired(desired, recordsByContent, i, missing, recordsToDelete) ==
    IF i > Len(desired) THEN [missing |-> missing, recordsToDelete |-> recordsToDelete]
    ELSE LET existing == existingOf(recordsByContent, desired[i]) IN
         IF Len(existing) = 0
         THEN diffDesired(desired, recordsByContent, i + 1,
                          Append(missing, desired[i]), recordsToDelete)
         ELSE IF Len(existing) > 1
              THEN diffDesired(desired, recordsByContent, i + 1,
                               missing, recordsToDelete \o Tail(existing))
              ELSE diffDesired(desired, recordsByContent, i + 1,
                               missing, recordsToDelete)

\* diffRecords, second loop: all records of every content outside desiredSet;
\* order is the order in which the range over the map visits those contents.
RECURSIVE diffSurplus(_, _, _, _)
diffSurplus(order, recordsByContent, i, recordsToDelete) ==
    IF i > Len(order) THEN recordsToDelete
    ELSE diffSurplus(order, recordsByContent, i + 1,
                     recordsToDelete \o recordsByContent[order[i]])

surplusContents(desiredSet, recordsByContent) == DOMAIN recordsByContent \ desiredSet

\* Mutant of diffRecords: extra records of a desired content are not deleted.
diffRecordsKeepDuplicates(desired, desiredSet, recordsByContent, order) ==
    LET d == diffDesired(desired, recordsByContent, 1, <<>>, <<>>) IN
    [missing |-> d.missing,
     recordsToDelete |-> diffSurplus(order, recordsByContent, 1, <<>>)]

\* Mutant of diffRecords: every desired content is created anew and every
\* listed record deleted, whether or not its content is desired.
diffRecordsRecreate(desired, desiredSet, recordsByContent, order) ==
    LET all == CHOOSE p \in Perms(DOMAIN recordsByContent) : TRUE
    IN [missing |-> desired,
        recordsToDelete |-> diffSurplus(all, recordsByContent, 1, <<>>)]

diffRecords(desired, desiredSet, recordsByContent, order) ==
    LET d == diffDesired(desired, recordsByContent, 1, <<>>, <<>>) IN
    [missing |-> d.missing,
     recordsToDelete |-> diffSurplus(order, recordsByContent, 1, d.recordsToDelete)]

\* The frame of a call that has not listed yet; start is the provider's
\* record list at the moment of the call.
NewCall(newContents, recs) ==
    [newContents |-> newContents, start |-> recs, desired |-> <<>>, listed |-> <<>>,
     missing |-> <<>>, recordsToDelete |-> <<>>, ci |-> 1, di |-> 1,
     created |-> {}, err |-> "none"]

NoCall == NewCall(<<>>, <<>>)

\* Where ReplaceRecords goes once createRecords has returned nil.
afterCreates(recordsToDelete) ==
    IF Len(recordsToDelete) = 0 THEN "rr_ret" ELSE "rr_delete"

\* Mutant of afterList: the surplus is deleted first, as in the delete-then-create
\* ReplaceRecords this one replaced; the creates are never reached.
afterListDeleteFirst(missing, recordsToDelete) ==
    IF Len(recordsToDelete) > 0 THEN "rr_delete"
    ELSE IF Len(missing) > 0 THEN "rr_create" ELSE "rr_ret"

afterList(missing, recordsToDelete) ==
    IF Len(missing) > 0 THEN "rr_create" ELSE afterCreates(recordsToDelete)

\* ReplaceRecords up to the diff: the argument check, dedupeContents,
\* GetDNSRecords (which may fail) and diffRecords.
RRBegin ==
    /\ pc = "rr_call"
    /\ UNCHANGED <<runVars, ipHealth, mode, records, ops, calls, prev, svcVars>>
    /\ IF Len(rr.newContents) = 0
       THEN /\ rr' = [rr EXCEPT !.err = "no record contents provided"]
            /\ pc' = "rr_ret"
       ELSE \E listOk \in BOOLEAN :
            LET desired == dedupeContents(rr.newContents) IN
            IF ~listOk
            THEN /\ rr' = [rr EXCEPT !.desired = desired, !.err = "list"]
                 /\ pc' = "rr_ret"
            ELSE IF Len(records) = 0
            THEN /\ rr' = [rr EXCEPT !.desired = desired, !.listed = records,
                                     !.missing = desired]
                 /\ pc' = afterList(desired, <<>>)
            ELSE LET desiredSet == buildContentSet(desired)
                     recordsByContent == groupRecordsByContent(records)
                 IN \E order \in Perms(surplusContents(desiredSet, recordsByContent)) :
                    LET d == diffRecords(desired, desiredSet, recordsByContent, order) IN
                    /\ rr' = [rr EXCEPT !.desired = desired, !.listed = records,
                                        !.missing = d.missing,
                                        !.recordsToDelete = d.recordsToDelete]
                    /\ pc' = afterList(d.missing, d.recordsToDelete)

\* Mutant of RRCreate: a failed create is skipped instead of ending the call.
RRCreateIgnoreError ==
    /\ pc = "rr_create"
    /\ rr.ci <= Len(rr.missing)
    /\ UNCHANGED <<runVars, ipHealth, mode, calls, prev, svcVars>>
    /\ \E ok \in BOOLEAN :
       LET content == rr.missing[rr.ci] IN
       /\ ops' = Append(ops, [op |-> "create", content |-> content,
                              id |-> FreshId(records, content), ok |-> ok])
       /\ IF ok
          THEN /\ records' = Append(records, [ID |-> FreshId(records, content), Content |-> content])
               /\ rr' = [rr EXCEPT !.ci = @ + 1, !.created = @ \cup {FreshId(records, content)}]
          ELSE /\ UNCHANGED records
               /\ rr' = [rr EXCEPT !.ci = @ + 1]
       /\ pc' = IF rr.ci + 1 > Len(rr.missing)
                THEN afterCreates(rr.recordsToDelete) ELSE "rr_create"

\* Mutant of RRCreate: after a failed create the call goes on to the deletes
\* and returns the create error afterwards.
RRCreateFailThenDelete ==
    /\ pc = "rr_create"
    /\ rr.ci <= Len(rr.missing)
    /\ UNCHANGED <<runVars, ipHealth, mode, calls, prev, svcVars>>
    /\ \E ok \in BOOLEAN :
       LET content == rr.missing[rr.ci] IN
       /\ ops' = Append(ops, [op |-> "create", content |-> content,
                              id |-> FreshId(records, content), ok |-> ok])
       /\ IF ok
          THEN /\ records' = Append(records, [ID |-> FreshId(records, content), Content |-> content])
               /\ rr' = [rr EXCEPT !.ci = @ + 1, !.created = @ \cup {FreshId(records, content)}]
               /\ pc' = IF rr.ci + 1 > Len(rr.missing)
                        THEN afterCreates(rr.recordsToDelete) ELSE "rr_create"
          ELSE /\ UNCHANGED records
               /\ rr' = [rr EXCEPT !.err = "create"]
               /\ pc' = afterCreates(rr.recordsToDelete)

\* createRecords, one CreateDNSRecord request: the first failure ends the call.
RRCreate ==
    /\ pc = "rr_create"
    /\ rr.ci <= Len(rr.missing)
    /\ UNCHANGED <<runVars, ipHealth, mode, calls, prev, svcVars>>
    /\ \E ok \in BOOLEAN :
       LET content == rr.missing[rr.ci] IN
       /\ ops' = Append(ops, [op |-> "create", content |-> content,
                              id |-> FreshId(records, content), ok |-> ok])
       /\ IF ok
          THEN /\ records' = Append(records, [ID |-> FreshId(records, content), Content |-> content])
               /\ rr' = [rr EXCEPT !.ci = @ + 1, !.created = @ \cup {FreshId(records, content)}]
               /\ pc' = IF rr.ci + 1 > Len(rr.missing)
                        THEN afterCreates(rr.recordsToDelete) ELSE "rr_create"
          ELSE /\ UNCHANGED records
               /\ rr' = [rr EXCEPT !.err = "create"]
               /\ pc' = "rr_ret"

\* deleteRecords, one DeleteDNSRecord request: the first failure ends the call.
RRDelete ==
    /\ pc = "rr_delete"
    /\ rr.di <= Len(rr.recordsToDelete)
    /\ UNCHANGED <<runVars, ipHealth, mode, calls, prev, svcVars>>
    /\ \E ok \in BOOLEAN :
       LET record == rr.recordsToDelete[rr.di] IN
       /\ ops' = Append(ops, [op |-> "delete", content |-> record.Content,
                              id |-> record.ID, ok |-> ok])
       /\ IF ok
          THEN /\ records' = SelectSeq(records, LAMBDA r : r.ID # record.ID)
               /\ rr' = [rr EXCEPT !.di = @ + 1]
               /\ pc' = IF rr.di + 1 > Len(rr.recordsToDelete) THEN "rr_ret" ELSE "rr_delete"
          ELSE /\ UNCHANGED records
               /\ rr' = [rr EXCEPT !.err = "delete"]
               /\ pc' = "rr_ret"

\* -------------------------------------------------------- config: levels
\* uniqueStrings: drops empty strings and repeated values, first occurrence kept.
RECURSIVE uniqueLoop(_, _, _)
uniqueLoop(values, i, out) ==
    IF i > Len(values) THEN out
    ELSE IF values[i] = "" \/ InSeq(values[i], out)
         THEN uniqueLoop(values, i + 1, out)
         ELSE uniqueLoop(values, i + 1, Append(out, values[i]))

\* Mutant of uniqueStrings: empty strings are dropped, repeated values kept.
uniqueStringsKeepRepeats(values) == SelectSeq(values, LAMBDA v : v # "")

uniqueStrings(values) == uniqueLoop(values, 1, <<>>)

LegacyPriorityHigh == 100
LegacyPriorityLow == 0

\* Mutant of legacyPriorityLevels: the failover level is put first.
legacyPriorityLevelsLowFirst(priorityIPs, failoverIPs) ==
    (IF Len(failoverIPs) > 0
     THEN <<[Priority |-> LegacyPriorityLow, IPs |-> failoverIPs]>> ELSE <<>>)
    \o (IF Len(priorityIPs) > 0
        THEN <<[Priority |-> LegacyPriorityHigh, IPs |-> priorityIPs]>> ELSE <<>>)

legacyPriorityLevels(priorityIPs, failoverIPs) ==
    (IF Len(priorityIPs) > 0
     THEN <<[Priority |-> LegacyPriorityHigh, IPs |-> priorityIPs]>> ELSE <<>>)
    \o (IF Len(failoverIPs) > 0
        THEN <<[Priority |-> LegacyPriorityLow, IPs |-> failoverIPs]>> ELSE <<>>)

\* NormalizePriorityLevels, first loop: the priorities of the levels that have
\* IPs, in order of first appearance.
RECURSIVE mergeOrder(_, _, _)
mergeOrder(levels, i, order) ==
    IF i > Len(levels) THEN order
    ELSE IF Len(levels[i].IPs) = 0 \/ InSeq(levels[i].Priority, order)
         THEN mergeOrder(levels, i + 1, order)
         ELSE mergeOrder(levels, i + 1, Append(order, levels[i].Priority))

\* NormalizePriorityLevels, first loop: merged[priority].
RECURSIVE mergedIPs(_, _, _, _)
mergedIPs(levels, priority, i, ips) ==
    IF i > Len(levels) THEN ips
    ELSE IF levels[i].Priority = priority
         THEN mergedIPs(levels, priority, i + 1, ips \o levels[i].IPs)
         ELSE mergedIPs(levels, priority, i + 1, ips)

\* NormalizePriorityLevels, second loop.
RECURSIVE normalizeLoop(_, _, _, _)
normalizeLoop(levels, order, i, normalized) ==
    IF i > Len(order) THEN normalized
    ELSE LET ips == uniqueStrings(mergedIPs(levels, order[i], 1, <<>>)) IN
         IF Len(ips) = 0
         THEN normalizeLoop(levels, order, i + 1, normalized)
         ELSE normalizeLoop(levels, order, i + 1,
                            Append(normalized, [Priority |-> order[i], IPs |-> ips]))

NormalizePriorityLevels(levels) ==
    IF Len(levels) = 0 THEN <<>>
    ELSE normalizeLoop(levels, mergeOrder(levels, 1, <<>>), 1, <<>>)

EffectivePriorityLevels(o) ==
    LET levels == NormalizePriorityLevels(o.PriorityLevels) IN
    IF Len(levels) > 0 THEN levels
    ELSE NormalizePriorityLevels(legacyPriorityLevels(o.PriorityFailoverIPs, o.FailoverIPs))

\* ------------------------------------------------------ pkg/gslb: Service
None == [ok |-> FALSE, priority |-> 0, ips |-> <<>>]

\* net.ParseIP followed by IP.To4, on the contents of the model: "nil" when the
\* text is no IP address; otherwise whether the address has a 4-byte form,
\* which a dotted quad has and an IPv4-mapped IPv6 address has too.
ParseIPTo4(text) ==
    CASE text \in {IP4a, IP4b, IP4c} -> "ipv4"
      [] text = IP4in6 -> "ipv4"
      [] text = IP6a -> "nil4"
      [] OTHER -> "nil"

\* validateIPType: "ok" or the error.
validateIPType(recordType, ipAddress) ==
    IF recordType # "A" /\ recordType # "AAAA" THEN "ErrUnsupportedRecordType"
    ELSE IF ParseIPTo4(ipAddress) = "nil" THEN "ErrInvalidIPAddress"
    ELSE IF recordType = "A" /\ ParseIPTo4(ipAddress) = "nil4" THEN "ErrInvalidIPv4Address"
    ELSE IF recordType = "AAAA" /\ ParseIPTo4(ipAddress) # "nil4" THEN "ErrInvalidIPv6Address"
    ELSE "ok"

\* checkPriorityLevel: the IPs are validated and probed in order, the first
\* failure ends the check; health[ip] is what checker.Check(ip) returns.
RECURSIVE checkLoop(_, _, _, _)
checkLoop(recordType, health, ips, i) ==
    IF i > Len(ips) THEN TRUE
    ELSE IF validateIPType(recordType, ips[i]) # "ok" THEN FALSE
    ELSE IF ~health[ips[i]] THEN FALSE
    ELSE checkLoop(recordType, health, ips, i + 1)

\* Mutant of checkPriorityLevel: only the first IP of the level is looked at.
checkPriorityLevelFirstIP(recordType, health, level) ==
    IF Len(level.IPs) = 0 THEN FALSE
    ELSE validateIPType(recordType, level.IPs[1]) = "ok" /\ health[level.IPs[1]]

checkPriorityLevel(recordType, health, level) ==
    IF Len(level.IPs) = 0 THEN FALSE
    ELSE checkLoop(recordType, health, level.IPs, 1)

findPriorityLevel(levels, priority) ==
    IF \E i \in DOMAIN levels : levels[i].Priority = priority
    THEN [ok |-> TRUE,
          level |-> levels[CHOOSE i \in DOMAIN levels :
                              /\ levels[i].Priority = priority
                              /\ \A j \in 1..(i - 1) : levels[j].Priority # priority]]
    ELSE [ok |-> FALSE, level |-> [Priority |-> 0, IPs |-> <<>>]]

\* selectPriorityLevel, the scan over the levels in order.
RECURSIVE scanLevels(_, _, _, _, _, _)
scanLevels(o, health, levels, currentPriority, currentPrioritySet, i) ==
    IF i > Len(levels) THEN None
    ELSE IF ~o.ReturnToPriority /\ currentPrioritySet /\ levels[i].Priority > currentPriority
         THEN scanLevels(o, health, levels, currentPriority, currentPrioritySet, i + 1)
    ELSE IF checkPriorityLevel(o.RecordType, health, levels[i])
         THEN [ok |-> TRUE, priority |-> levels[i].Priority, ips |-> levels[i].IPs]
    ELSE scanLevels(o, health, levels, currentPriority, currentPrioritySet, i + 1)

\* Mutant of selectPriorityLevel: the level the state entry names is kept,
\* whatever the probes say, as long as the state is initialized.
selectPriorityLevelFromState(o, health, levels, currentPriority, currentPrioritySet) ==
    LET kept == findPriorityLevel(levels, originStatus.CurrentPriority) IN
    IF originStatus.Initialized /\ kept.ok /\ Len(kept.level.IPs) > 0
    THEN [ok |-> TRUE, priority |-> kept.level.Priority, ips |-> kept.level.IPs]
    ELSE scanLevels(o, health, levels, currentPriority, currentPrioritySet, 1)

\* Mutant of selectPriorityLevel: when the scan finds nothing, the last level
\* is returned unprobed.
selectPriorityLevelFallback(o, health, levels, currentPriority, currentPrioritySet) ==
    LET scanned == scanLevels(o, health, levels, currentPriority, currentPrioritySet, 1) IN
    IF scanned.ok \/ Len(levels) = 0 THEN scanned
    ELSE [ok |-> TRUE, priority |-> levels[Len(levels)].Priority,
          ips |-> levels[Len(levels)].IPs]

\* Mutant of selectPriorityLevel: when the current level is not healthy the
\* scan skips no level.
selectPriorityLevelNoSkip(o, health, levels, currentPriority, currentPrioritySet) ==
    LET found == findPriorityLevel(levels, currentPriority) IN
    IF /\ ~o.ReturnToPriority /\ currentPrioritySet
       /\ found.ok
       /\ checkPriorityLevel(o.RecordType, health, found.level)
    THEN [ok |-> TRUE, priority |-> currentPriority, ips |-> found.level.IPs]
    ELSE scanLevels([o EXCEPT !.ReturnToPriority = TRUE], health, levels,
                    currentPriority, currentPrioritySet, 1)

selectPriorityLevel(o, health, levels, currentPriority, currentPrioritySet) ==
    LET found == findPriorityLevel(levels, currentPriority) IN
    IF /\ ~o.ReturnToPriority /\ currentPrioritySet
       /\ found.ok
       /\ checkPriorityLevel(o.RecordType, health, found.level)
    THEN [ok |-> TRUE, priority |-> currentPriority, ips |-> found.level.IPs]
    ELSE scanLevels(o, health, levels, currentPriority, currentPrioritySet, 1)

filterValidIPs(recordType, ips) ==
    SelectSeq(ips, LAMBDA ip : validateIPType(recordType, ip) = "ok")

\* sortPriorityLevels: sort.Slice, descending by Priority. The priorities of
\* normalized levels are pairwise distinct, so the order is determined.
sortPriorityLevels(levels) == SortSeq(levels, LAMBDA a, b : a.Priority > b.Priority)

isSubset(subset, superset) == \A value \in subset : value \in superset

sliceToSet(values) == Range(values)

\* findHighestMatchingPriority: the priorities of the levels whose IPs hold
\* every current IP; the highest is picked.
matchingPriorities(levels, currentSet) ==
    {levels[i].Priority : i \in {j \in DOMAIN levels :
                                    isSubset(currentSet, sliceToSet(levels[j].IPs))}}

\* Mutant of detectCurrentPriority: the number of matching levels is returned
\* in place of the highest matching priority.
detectCurrentPriorityCount(levels, currentIPs) ==
    IF Len(levels) = 0 \/ Len(currentIPs) = 0 THEN [ok |-> FALSE, priority |-> 0]
    ELSE LET matched == matchingPriorities(levels, sliceToSet(currentIPs)) IN
         IF matched = {} THEN [ok |-> FALSE, priority |-> 0]
         ELSE [ok |-> TRUE, priority |-> Cardinality(matched)]

\* Mutant of detectCurrentPriority: the lowest matching priority is picked.
detectCurrentPriorityLowest(levels, currentIPs) ==
    IF Len(levels) = 0 \/ Len(currentIPs) = 0 THEN [ok |-> FALSE, priority |-> 0]
    ELSE LET matched == matchingPriorities(levels, sliceToSet(currentIPs)) IN
         IF matched = {} THEN [ok |-> FALSE, priority |-> 0]
         ELSE [ok |-> TRUE, priority |-> CHOOSE p \in matched : \A q \in matched : p <= q]

detectCurrentPriority(levels, currentIPs) ==
    IF Len(levels) = 0 \/ Len(currentIPs) = 0 THEN [ok |-> FALSE, priority |-> 0]
    ELSE LET matched == matchingPriorities(levels, sliceToSet(currentIPs)) IN
         IF matched = {} THEN [ok |-> FALSE, priority |-> 0]
         ELSE [ok |-> TRUE, priority |-> CHOOSE p \in matched : \A q \in matched : q <= p]

collectRecordIPs(recs) ==
    LET kept == SelectSeq(recs, LAMBDA r : r.Content # "") IN
    [i \in 1..Len(kept) |-> kept[i].Content]

\* Mutant of sameIPSet: the slices are compared as lists.
sameIPSetAsLists(a, b) == a = b

sameIPSet(a, b) ==
    IF Len(a) = 0 /\ Len(b) = 0 THEN TRUE
    ELSE /\ Cardinality(Range(a)) = Cardinality(Range(b))
         /\ \A ip \in Range(a) : ip \in Range(b)

buildChangeReason(currentPrioritySet, currentPriority, selectedPriority, currentIPs, selectedIPs) ==
    IF ~currentPrioritySet THEN <<"Switching to priority level", selectedPriority>>
    ELSE IF selectedPriority > currentPriority
         THEN <<"Priority level is healthy again", selectedPriority>>
    ELSE IF selectedPriority < currentPriority
         THEN <<"Priority level unhealthy, switching to level", currentPriority, selectedPriority>>
    ELSE IF ~sameIPSet(currentIPs, selectedIPs)
         THEN <<"Updating IPs within priority level based on health checks", selectedPriority>>
    ELSE <<"No change">>

firstIP(ips) == IF Len(ips) = 0 THEN "" ELSE ips[1]

\* The zero OriginStatus (LastCheck, a wall-clock time, is left out).
NewOriginStatus == [CurrentPriority |-> 0, CurrentIPs |-> <<>>, Initialized |-> FALSE]

\* updateOriginStatus: the entry after the write.
updateOriginStatus(status, priority, ips, initialized) ==
    IF initialized
    THEN [CurrentPriority |-> priority, CurrentIPs |-> ips, Initialized |-> TRUE]
    ELSE [status EXCEPT !.CurrentIPs = ips]

\* sendNotifications: the event, handed to every notifier in turn.
FailoverEvent(o, oldIPs, newIPs, reason, isPriorityIP, isFailoverIP, oldPriority, newPriority, maxPriority) ==
    [OldIP |-> firstIP(oldIPs), NewIP |-> firstIP(newIPs),
     OldIPs |-> oldIPs, NewIPs |-> newIPs, Reason |-> reason,
     IsPriorityIP |-> isPriorityIP, IsFailoverIP |-> isFailoverIP,
     ReturnToPriority |-> o.ReturnToPriority,
     OldPriority |-> oldPriority, NewPriority |-> newPriority, MaxPriority |-> maxPriority]

\* Mutant of sendNotifications: only the first notifier is handed the event.
sendNotificationsFirstOnly(ns, event) ==
    IF Len(ns) = 0 THEN <<>>
    ELSE <<[notifier |-> ns[1], event |-> event]>>

sendNotifications(ns, event) ==
    IF Len(ns) = 0 THEN <<>>
    ELSE [i \in 1..Len(ns) |-> [notifier |-> ns[i], event |-> event]]

\* ------------------------------------------------- the monitored origins
Level(priority, ips) == [Priority |-> priority, IPs |-> ips]

Origin(recordType, levels, priorityIPs, failoverIPs, returnToPriority) ==
    [RecordType |-> recordType, PriorityLevels |-> levels,
     PriorityFailoverIPs |-> priorityIPs, FailoverIPs |-> failoverIPs,
     ReturnToPriority |-> returnToPriority]

NoOrigin == Origin("A", <<>>, <<>>, <<>>, FALSE)

\* Level lists as written in a configuration file: two levels of one IP; a
\* lower level that shares an IP with the top level; three levels out of
\* order with a repeated IP, an empty string and an empty level; a top level
\* holding an IPv6 literal next to an IPv4 one; a top level holding an
\* IPv4-mapped IPv6 literal.
LevelsTwo == <<Level(100, <<IP4a>>), Level(50, <<IP4b>>)>>
LevelsShared == <<Level(100, <<IP4a, IP4b>>), Level(50, <<IP4a>>)>>
LevelsThree == <<Level(50, <<IP4b>>), Level(100, <<IP4a, "", IP4a>>),
                 Level(0, <<IP4c>>), Level(50, <<>>)>>
LevelsMixed == <<Level(100, <<IP4a, IP6a>>), Level(50, <<IP4b>>)>>
LevelsMapped == <<Level(100, <<IP4in6>>), Level(50, <<IP4a>>)>>
LevelsV6 == <<Level(100, <<IP6a>>), Level(50, <<IP4in6>>)>>

Origins ==
    {Origin("A", ls, <<>>, <<>>, rtp) : ls \in {LevelsTwo, LevelsShared, LevelsThree},
                                        rtp \in BOOLEAN}
    \cup {Origin("A", LevelsMixed, <<>>, <<>>, TRUE),
          Origin("A", LevelsMapped, <<>>, <<>>, TRUE),
          Origin("AAAA", LevelsV6, <<>>, <<>>, TRUE),
          Origin("A", <<>>, <<IP4a>>, <<IP4b, IP4b>>, FALSE),
          NoOrigin}

\* Configurations the service is run with: every origin with two notifiers,
\* and one origin with none.
Deployments ==
    {<<o, <<"slack", "discord">> >> : o \in Origins}
    \cup {<<Origin("A", LevelsTwo, <<>>, <<>>, FALSE), <<>> >>}

\* The origin's levels as checkOrigin uses them.
LevelsOf(o) == sortPriorityLevels(EffectivePriorityLevels(o))

LevelIPs(levels) == UNION {Range(levels[i].IPs) : i \in DOMAIN levels}

\* Contents the provider may hold before the first cycle: the origin's IPs
\* and an address that (but for LevelsThree) is in no level.
InitContents(o) == LevelIPs(LevelsOf(o)) \cup {IP4c}

NoCycle ==
    [outcome |-> "none", health |-> [ip \in {} |-> FALSE], listed |-> <<>>,
     currentIPs |-> <<>>, currentPriority |-> 0, currentPrioritySet |-> FALSE,
     maxPriority |-> 0, selected |-> None, selectedIPs |-> <<>>,
     statusBefore |-> NewOriginStatus]

\* ------------------------------------------- direct calls of ReplaceRecords
DirectContents == {IP4a, IP4b, IP6a, ""}

\* A caller invokes ReplaceRecords(ctx, name, type, newContents).
DirectCall ==
    /\ mode = "direct"
    /\ pc = "idle"
    /\ calls = 0
    /\ \E newContents \in SeqsUpTo(DirectContents, MaxDesired) :
       rr' = NewCall(newContents, records)
    /\ pc' = "rr_call"
    /\ ops' = <<>>
    /\ calls' = 1
    /\ UNCHANGED <<runVars, ipHealth, mode, records, prev, svcVars>>

\* The caller invokes ReplaceRecords again with the argument of the call
\* that has just returned.
DirectRepeat ==
    /\ mode = "direct"
    /\ pc = "rr_ret"
    /\ calls < MaxCalls
    /\ prev' = [desired |-> rr.desired, ok |-> rr.err = "none", made |-> TRUE]
    /\ rr' = NewCall(rr.newContents, records)
    /\ pc' = "rr_call"
    /\ ops' = <<>>
    /\ calls' = calls + 1
    /\ UNCHANGED <<runVars, ipHealth, mode, records, svcVars>>

NoPrev == [desired |-> <<>>, ok |-> FALSE, made |-> FALSE]

InitRR ==
    /\ NoRun
    /\ ProbedAnew
    /\ mode = "direct"
    /\ decoded = NoOrigin
    /\ \E cs \in SeqsUpTo(DirectContents, MaxInitRecords) :
       records = MkRecords(cs)
    /\ pc = "idle"
    /\ rr = NoCall
    /\ ops = <<>>
    /\ calls = 0
    /\ prev = NoPrev
    /\ origin = NoOrigin
    /\ notifiers = <<>>
    /\ originStatus = NewOriginStatus
    /\ cyc = NoCycle
    /\ notifications = <<>>

NextRR == DirectCall \/ DirectRepeat \/ RRBegin \/ RRCreate \/ RRDelete

SpecRR == InitRR /\ [][NextRR]_vars

\* ------------------------------------------------ Service.checkOrigin
\* checkOrigin up to the call of ReplaceRecords (or to its return, when the
\* cycle ends before that call).
CheckOrigin ==
    /\ mode = "service"
    /\ pc = "idle"
    /\ UNCHANGED <<runVars, ipHealth, mode, decoded, records, ops, calls, prev, origin, notifiers, notifications>>
    /\ LET effective == EffectivePriorityLevels(origin) IN
       IF Len(effective) = 0
       THEN /\ cyc' = [NoCycle EXCEPT !.outcome = "no_levels", !.statusBefore = originStatus]
            /\ pc' = "checked"
            /\ UNCHANGED <<rr, originStatus>>
       ELSE
       LET priorityLevels == sortPriorityLevels(effective)
           maxPriority == priorityLevels[1].Priority
       IN
       \/ \* GetDNSRecords fails
          /\ cyc' = [NoCycle EXCEPT !.outcome = "list_error", !.maxPriority = maxPriority,
                                    !.statusBefore = originStatus]
          /\ pc' = "checked"
          /\ UNCHANGED <<rr, originStatus>>
       \/ \E health \in [LevelIPs(priorityLevels) -> BOOLEAN] :
          LET currentIPs == collectRecordIPs(records)
              detected == detectCurrentPriority(priorityLevels, currentIPs)
              detectedPriority == IF detected.ok THEN detected.priority
                                  ELSE originStatus.CurrentPriority
              detectedSet == detected.ok \/ originStatus.Initialized
              currentPriority == IF detectedSet THEN detectedPriority ELSE maxPriority
              currentPrioritySet == IF detectedSet THEN detectedSet ELSE TRUE
              selected == selectPriorityLevel(origin, health, priorityLevels,
                                              currentPriority, currentPrioritySet)
              selectedIPs == filterValidIPs(origin.RecordType, selected.ips)
              seen == [NoCycle EXCEPT !.health = health, !.listed = records,
                                      !.currentIPs = currentIPs,
                                      !.currentPriority = currentPriority,
                                      !.currentPrioritySet = currentPrioritySet,
                                      !.maxPriority = maxPriority,
                                      !.selected = selected,
                                      !.statusBefore = originStatus]
          IN
          IF ~selected.ok
          THEN /\ originStatus' = updateOriginStatus(originStatus, currentPriority,
                                                     currentIPs, currentPrioritySet)
               /\ cyc' = [seen EXCEPT !.outcome = "no_healthy"]
               /\ pc' = "checked"
               /\ UNCHANGED rr
          ELSE IF Len(selectedIPs) = 0
          THEN /\ originStatus' = updateOriginStatus(originStatus, currentPriority,
                                                     currentIPs, currentPrioritySet)
               /\ cyc' = [seen EXCEPT !.outcome = "no_valid"]
               /\ pc' = "checked"
               /\ UNCHANGED rr
          ELSE IF sameIPSet(currentIPs, selectedIPs)
          THEN /\ originStatus' = updateOriginStatus(originStatus, selected.priority,
                                                     selectedIPs, TRUE)
               /\ cyc' = [seen EXCEPT !.outcome = "same", !.selectedIPs = selectedIPs]
               /\ pc' = "checked"
               /\ UNCHANGED rr
          ELSE /\ rr' = NewCall(selectedIPs, records)
               /\ pc' = "rr_call"
               /\ cyc' = [seen EXCEPT !.outcome = "replacing", !.selectedIPs = selectedIPs]
               /\ UNCHANGED originStatus

\* Mutant of CheckOriginReturn: the state is written whether or not
\* ReplaceRecords returned an error.
CheckOriginReturnUpdateOnError ==
    /\ mode = "service"
    /\ pc = "rr_ret"
    /\ pc' = "checked"
    /\ UNCHANGED <<runVars, ipHealth, mode, decoded, records, rr, ops, calls, prev, origin, notifiers, notifications>>
    /\ originStatus' = updateOriginStatus(originStatus, cyc.selected.priority,
                                          cyc.selectedIPs, TRUE)
    /\ cyc' = [cyc EXCEPT !.outcome = IF rr.err # "none" THEN "replace_error"
                                      ELSE "replaced"]

\* checkOrigin after ReplaceRecords has returned.
CheckOriginReturn ==
    /\ mode = "service"
    /\ pc = "rr_ret"
    /\ pc' = "checked"
    /\ UNCHANGED <<runVars, ipHealth, mode, decoded, records, rr, ops, calls, prev, origin, notifiers>>
    /\ IF rr.err # "none"
       THEN /\ cyc' = [cyc EXCEPT !.outcome = "replace_error"]
            /\ UNCHANGED <<originStatus, notifications>>
       ELSE LET selectedPriority == cyc.selected.priority
                selectedIPs == cyc.selectedIPs
                isPriorityIP == selectedPriority = cyc.maxPriority
                isFailoverIP == selectedPriority < cyc.maxPriority
                reason == buildChangeReason(cyc.currentPrioritySet, cyc.currentPriority,
                                            selectedPriority, cyc.currentIPs, selectedIPs)
            IN /\ originStatus' = updateOriginStatus(originStatus, selectedPriority,
                                                     selectedIPs, TRUE)
               /\ notifications' = sendNotifications(notifiers,
                      FailoverEvent(origin, cyc.currentIPs, selectedIPs, reason,
                                    isPriorityIP, isFailoverIP, cyc.currentPriority,
                                    selectedPriority, cyc.maxPriority))
               /\ cyc' = [cyc EXCEPT !.outcome = "replaced"]

\* monitorOrigin: checkOrigin has returned and the loop waits for the next
\* tick; what the cycle held in its locals is gone.
MonitorWait ==
    /\ mode = "service"
    /\ pc = "checked"
    /\ pc' = "idle"
    /\ rr' = NoCall
    /\ ops' = <<>>
    /\ cyc' = NoCycle
    /\ notifications' = <<>>
    /\ UNCHANGED <<runVars, ipHealth, mode, decoded, records, calls, prev, origin, notifiers, originStatus>>

Init ==
    /\ NoRun
    /\ ProbedAnew
    /\ mode = "service"
    /\ decoded = NoOrigin
    /\ \E d \in Deployments : origin = d[1] /\ notifiers = d[2]
    /\ \E cs \in SeqsUpTo(InitContents(origin), MaxInitRecords) :
       records = MkRecords(cs)
    /\ pc = "idle"
    /\ rr = NoCall
    /\ ops = <<>>
    /\ calls = 0
    /\ prev = NoPrev
    /\ originStatus = NewOriginStatus
    /\ cyc = NoCycle
    /\ notifications = <<>>

Next == CheckOrigin \/ RRBegin \/ RRCreate \/ RRDelete \/ CheckOriginReturn \/ MonitorWait

Spec == Init /\ [][Next]_vars

\* ------------------------------------------------- cycles, health constant
\* The service run on origins whose per-IP health does not change: every
\* probe of an IP, in every cycle, finds ipHealth[ip].
CheckOriginSteady ==
    /\ CheckOrigin
    /\ cyc'.outcome \in {"no_levels", "list_error"} \/ cyc'.health = ipHealth

InitSteady ==
    /\ NoRun
    /\ mode = "service"
    /\ decoded = NoOrigin
    /\ origin \in Origins
    /\ notifiers = <<"slack", "discord">>
    /\ ipHealth \in [LevelIPs(LevelsOf(origin)) -> BOOLEAN]
    /\ \E cs \in SeqsUpTo(InitContents(origin), MaxInitRecords) :
       records = MkRecords(cs)
    /\ pc = "idle"
    /\ rr = NoCall
    /\ ops = <<>>
    /\ calls = 0
    /\ prev = NoPrev
    /\ originStatus = NewOriginStatus
    /\ cyc = NoCycle
    /\ notifications = <<>>

NextSteady == CheckOriginSteady \/ RRBegin \/ RRCreate \/ RRDelete \/ CheckOriginReturn \/ MonitorWait

\* Fair ticking: the ticker keeps firing, so the loop keeps starting cycles,
\* and every request of a cycle returns, so the cycle goes on to its end.
SpecSteady ==
    /\ InitSteady
    /\ [][NextSteady]_vars
    /\ WF_vars(CheckOriginSteady)
    /\ WF_vars(RRBegin)
    /\ WF_vars(RRCreate)
    /\ WF_vars(RRDelete)
    /\ WF_vars(CheckOriginReturn)
    /\ WF_vars(MonitorWait)


\* ------------------------------------------------------ config.LoadConfig
\* Longest priority_failover_ips and failover_ips list of a decoded origin.
MaxLegacyIPs == 2

\* normalizeOriginPriorityLevels: the PriorityLevels the origin has after it.
normalizeOriginPriorityLevels(o) ==
    LET levels == NormalizePriorityLevels(o.PriorityLevels) IN
    IF Len(levels) > 0 THEN levels
    ELSE NormalizePriorityLevels(legacyPriorityLevels(o.PriorityFailoverIPs, o.FailoverIPs))

\* validateRecordType: TRUE when the type is accepted.
validateRecordType(recordType) == recordType = "A" \/ recordType = "AAAA"

\* Origins as a configuration file may hold them: priority_levels absent,
\* present with nothing in them, or present; the legacy lists of any content,
\* empty strings and repetitions included; a record type the loader rejects.
LevelsMerge == <<Level(50, <<IP4b, IP4a>>), Level(100, <<IP4a>>), Level(50, <<IP4a, IP4c, IP4b>>), Level(0, <<"">>)>>

DecodedLevels == {<<>>, <<Level(50, <<>>)>>, LevelsTwo, LevelsThree, LevelsMerge}

LegacyContents == {IP4a, IP4b, ""}

DecodedOrigins ==
    {Origin(recordType, levels, priorityIPs, failoverIPs, FALSE) :
        recordType \in {"A", "AAAA", "CNAME"},
        levels \in DecodedLevels,
        priorityIPs \in SeqsUpTo(LegacyContents, MaxLegacyIPs),
        failoverIPs \in SeqsUpTo(LegacyContents, MaxLegacyIPs)}

\* normalizeOrigins for the origin: its levels are normalized in place, then
\* its record type is validated; an invalid type makes LoadConfig fail.
NormalizeOrigins ==
    /\ mode = "config"
    /\ pc = "decoded"
    /\ origin' = [origin EXCEPT !.PriorityLevels = normalizeOriginPriorityLevels(origin)]
    /\ pc' = IF validateRecordType(origin.RecordType) THEN "loaded" ELSE "load_error"
    /\ UNCHANGED <<runVars, ipHealth, mode, decoded, records, rr, ops, calls, prev,
                   notifiers, originStatus, cyc, notifications>>

InitCfg ==
    /\ NoRun
    /\ ProbedAnew
    /\ mode = "config"
    /\ decoded \in DecodedOrigins
    /\ origin = decoded
    /\ pc = "decoded"
    /\ records = <<>>
    /\ rr = NoCall
    /\ ops = <<>>
    /\ calls = 0
    /\ prev = NoPrev
    /\ notifiers = <<>>
    /\ originStatus = NewOriginStatus
    /\ cyc = NoCycle
    /\ notifications = <<>>

NextCfg == NormalizeOrigins

SpecCfg == InitCfg /\ [][NextCfg]_vars


\* ============================================== Service.Start / RunOneShot
\* Entries of config.Origins.
MaxOrigins == 2
\* Notify goroutines that have not ended, over all fan-outs in flight.
MaxNotifyRoutines == 2

\* Origin keys (zone-name-type). Nothing in the configuration loader rejects
\* two entries with one key; names being interchangeable, the first entry is
\* always "a".
OriginKeys == {"a", "b"}

ConfigOrigins == {ks \in SeqsUpTo(OriginKeys, MaxOrigins) : Len(ks) >= 1 /\ ks[1] = "a"}

Routine(key) == [key |-> key, pos |-> "go", tick |-> FALSE, outcome |-> "none"]

\* No fan-out: what events[k] never is.
NoEvent == [by |-> 0]

\* A routine is between checkMutex.Lock() and the deferred Unlock().
InCycle(r) == r.pos \in {"list", "probe", "replace", "notify"}

Live == caller.pc # "exited"

\* What the service's goroutines leave alone.
RunQuiet == UNCHANGED <<decoded, records, pc, rr, ops, calls, prev, origin, originStatus, cyc, notifications, mode, notifiers, ipHealth, storeVars>>

\* Mutant of notifyContext: the fan-out context is derived from the context
\* given to Start / RunOneShot.
notifyContextFromCtx(done) == [parent |-> "ctx", state |-> IF done THEN "cancelled" ELSE "live"]

\* sendNotifications: context.WithTimeout(context.Background(), 30 s).
notifyContext(done) == [parent |-> "Background", state |-> "live"]

\* Mutant of sendNotificationsReturns: the fan-out is waited for.
sendNotificationsWaits(event) == \A n \in DOMAIN event.calls : event.calls[n] = "returned"

\* sendNotifications returns once the goroutines are started: wg.Wait() and
\* cancel() run in a goroutine of their own.
sendNotificationsReturns(event) == TRUE

\* Mutant of wgWait: Stop returns without waiting.
wgWaitSkipped(rs) == TRUE

\* sync.WaitGroup.Wait: every routine added has called Done.
wgWait(rs) == \A i \in DOMAIN rs : rs[i].pos = "exited"

\* The place a new fan-out takes in events, which holds the fan-outs in flight
\* in the order they were started; 0 when its goroutines would exceed
\* MaxNotifyRoutines.
FreeSlot == IF (Len(events) + 1) * Len(notifiers) <= MaxNotifyRoutines THEN Len(events) + 1 ELSE 0

\* The fan-out routine i started in its running cycle.
EventOf(i) == CHOOSE k \in DOMAIN events : events[k].by = i /\ events[k].fresh

\* checkOrigin returns: the deferred Unlock runs; monitorOrigin goes back to
\* its select having kept nothing of the cycle, RunOneShot's goroutine ends.
EndCycle(i, outcome) ==
    /\ routines' = [routines EXCEPT ![i].pos = IF mode = "start" THEN "loop" ELSE "exited",
                                    ![i].outcome = IF mode = "start" THEN "none" ELSE outcome]
    /\ checkMutex' = 0

\* monitorOrigin up to its loop: NewChecker, NewTicker, the status entry.
\* A checker that cannot be built is logged and the goroutine returns.
MonitorBegin(i) ==
    /\ mode = "start"
    /\ routines[i].pos = "go"
    /\ \E ok \in BOOLEAN : routines' = [routines EXCEPT ![i].pos = IF ok THEN "loop" ELSE "exited"]
    /\ UNCHANGED <<checkMutex, stopCh, ctxDone, caller, events>>
    /\ RunQuiet

\* The ticker fires. A goroutine blocked in the select with no signal raised
\* receives the tick at once; otherwise the tick stays in ticker.C (capacity
\* one) unless one is there already.
Tick(i) ==
    /\ mode = "start"
    /\ Live
    /\ \/ /\ routines[i].pos = "parked"
          /\ ~stopCh /\ ~ctxDone
          /\ routines' = [routines EXCEPT ![i].pos = "lock"]
       \/ /\ routines[i].pos \in {"loop", "lock", "list", "probe", "replace", "notify"}
          /\ ~routines[i].tick
          /\ routines' = [routines EXCEPT ![i].tick = TRUE]
    /\ UNCHANGED <<checkMutex, stopCh, ctxDone, caller, events>>
    /\ RunQuiet

\* select, case <-s.stopCh: taken by a goroutine reaching the select with
\* stopCh closed (among the ready cases, any may be chosen) or blocked in it
\* when stopCh is closed. The deferred wg.Done runs.
SelectStop(i) ==
    /\ mode = "start"
    /\ routines[i].pos \in {"loop", "parked"}
    /\ stopCh
    /\ routines' = [routines EXCEPT ![i].pos = "exited"]
    /\ UNCHANGED <<checkMutex, stopCh, ctxDone, caller, events>>
    /\ RunQuiet

\* select, case <-ctx.Done().
SelectCtx(i) ==
    /\ mode = "start"
    /\ routines[i].pos \in {"loop", "parked"}
    /\ ctxDone
    /\ routines' = [routines EXCEPT ![i].pos = "exited"]
    /\ UNCHANGED <<checkMutex, stopCh, ctxDone, caller, events>>
    /\ RunQuiet

\* select, case <-ticker.C, for a goroutine reaching the select with a tick
\* waiting: checkOrigin is called.
SelectTick(i) ==
    /\ mode = "start"
    /\ routines[i].pos = "loop"
    /\ routines[i].tick
    /\ routines' = [routines EXCEPT ![i].pos = "lock", ![i].tick = FALSE]
    /\ UNCHANGED <<checkMutex, stopCh, ctxDone, caller, events>>
    /\ RunQuiet

\* select with no case ready: the goroutine blocks.
SelectPark(i) ==
    /\ mode = "start"
    /\ routines[i].pos = "loop"
    /\ ~routines[i].tick /\ ~stopCh /\ ~ctxDone
    /\ routines' = [routines EXCEPT ![i].pos = "parked"]
    /\ UNCHANGED <<checkMutex, stopCh, ctxDone, caller, events>>
    /\ RunQuiet

\* runOriginCheck up to checkOrigin: a checker that cannot be built is the
\* error the goroutine sends to errCh.
RunOriginCheck(i) ==
    /\ mode = "oneshot"
    /\ routines[i].pos = "go"
    /\ \E ok \in BOOLEAN :
          routines' = [routines EXCEPT ![i].pos = IF ok THEN "lock" ELSE "exited",
                                       ![i].outcome = IF ok THEN "none" ELSE "checker_error"]
    /\ UNCHANGED <<checkMutex, stopCh, ctxDone, caller, events>>
    /\ RunQuiet

\* Mutant of Lock: the cycle starts without the mutex being free.
LockNotExclusive(i) ==
    /\ routines[i].pos = "lock"
    /\ routines' = [routines EXCEPT ![i].pos = "list"]
    /\ checkMutex' = i
    /\ UNCHANGED <<stopCh, ctxDone, caller, events>>
    /\ RunQuiet

\* checkOrigin: s.checkMutex.Lock().
Lock(i) ==
    /\ routines[i].pos = "lock"
    /\ checkMutex = 0
    /\ routines' = [routines EXCEPT ![i].pos = "list"]
    /\ checkMutex' = i
    /\ UNCHANGED <<stopCh, ctxDone, caller, events>>
    /\ RunQuiet

\* checkOrigin: GetDNSRecords; an error ends the cycle.
List(i) ==
    /\ routines[i].pos = "list"
    /\ \/ /\ routines' = [routines EXCEPT ![i].pos = "probe"]
          /\ UNCHANGED checkMutex
       \/ EndCycle(i, "list_error")
    /\ UNCHANGED <<stopCh, ctxDone, caller, events>>
    /\ RunQuiet

\* checkOrigin: selectPriorityLevel probes the IPs; the cycle ends when no
\* level is healthy or the records already hold the selected IPs.
Probe(i) ==
    /\ routines[i].pos = "probe"
    /\ \/ /\ routines' = [routines EXCEPT ![i].pos = "replace"]
          /\ UNCHANGED checkMutex
       \/ EndCycle(i, "no_healthy")
       \/ EndCycle(i, "same")
    /\ UNCHANGED <<stopCh, ctxDone, caller, events>>
    /\ RunQuiet

\* checkOrigin: ReplaceRecords. An error ends the cycle; on success the state
\* is updated and sendNotifications starts one goroutine per notifier (none
\* when no notifier is configured).
Replace(i) ==
    /\ routines[i].pos = "replace"
    /\ \/ /\ EndCycle(i, "replace_error")
          /\ UNCHANGED events
       \/ /\ notifiers = <<>>
          /\ EndCycle(i, "replaced")
          /\ UNCHANGED events
       \/ /\ notifiers # <<>>
          /\ FreeSlot # 0
          /\ routines' = [routines EXCEPT ![i].pos = "notify", ![i].outcome = "replaced"]
          /\ events' = Append(events,
                            [by |-> i, fresh |-> TRUE,
                             calls |-> [n \in Range(notifiers) |-> "go"],
                             ctx |-> notifyContext(ctxDone)])
          /\ UNCHANGED checkMutex
    /\ UNCHANGED <<stopCh, ctxDone, caller>>
    /\ RunQuiet

\* sendNotifications returns to checkOrigin, which returns.
SendNotificationsReturn(i) ==
    /\ routines[i].pos = "notify"
    /\ sendNotificationsReturns(events[EventOf(i)])
    /\ EndCycle(i, "replaced")
    /\ events' = [events EXCEPT ![EventOf(i)].fresh = FALSE]
    /\ UNCHANGED <<stopCh, ctxDone, caller>>
    /\ RunQuiet

\* A goroutine started by sendNotifications gets to run and calls Notify.
NotifyStart(k, n) ==
    /\ Live
    /\ n \in DOMAIN events[k].calls
    /\ events[k].calls[n] = "go"
    /\ events' = [events EXCEPT ![k].calls[n] = "running"]
    /\ UNCHANGED <<routines, checkMutex, stopCh, ctxDone, caller>>
    /\ RunQuiet

\* A Notify call returns (delivered, failed, or given up on its context).
NotifyReturn(k, n) ==
    /\ Live
    /\ events[k] # NoEvent
    /\ n \in DOMAIN events[k].calls
    /\ events[k].calls[n] = "running"
    /\ events' = [events EXCEPT ![k].calls[n] = "returned"]
    /\ UNCHANGED <<routines, checkMutex, stopCh, ctxDone, caller>>
    /\ RunQuiet

\* The 30 s deadline of a fan-out context passes.
NotifyDeadline(k) ==
    /\ Live
    /\ events[k] # NoEvent
    /\ events[k].ctx.state = "live"
    /\ events' = [events EXCEPT ![k].ctx.state = "deadline"]
    /\ UNCHANGED <<routines, checkMutex, stopCh, ctxDone, caller>>
    /\ RunQuiet

\* The goroutine of wg.Wait(); cancel(): every Notify call of the fan-out
\* has returned, its context is cancelled, and nothing of it is left.
NotifyDone(k) ==
    /\ Live
    /\ events[k] # NoEvent
    /\ ~events[k].fresh
    /\ \A n \in DOMAIN events[k].calls : events[k].calls[n] = "returned"
    /\ events' = [m \in 1..(Len(events) - 1) |-> IF m < k THEN events[m] ELSE events[m + 1]]
    /\ UNCHANGED <<routines, checkMutex, stopCh, ctxDone, caller>>
    /\ RunQuiet

\* The context given to Start / RunOneShot is cancelled. Contexts derived
\* from it are cancelled with it.
CtxCancel ==
    /\ Live
    /\ ~ctxDone
    /\ ctxDone' = TRUE
    /\ events' = [k \in DOMAIN events |->
                    IF events[k] # NoEvent /\ events[k].ctx.parent = "ctx" /\ events[k].ctx.state = "live"
                    THEN [events[k] EXCEPT !.ctx.state = "cancelled"]
                    ELSE events[k]]
    /\ UNCHANGED <<routines, checkMutex, stopCh, caller>>
    /\ RunQuiet

\* Stop: close(s.stopCh), then s.wg.Wait().
Stop ==
    /\ mode = "start"
    /\ caller.pc = "serving"
    /\ stopCh' = TRUE
    /\ caller' = [caller EXCEPT !.pc = "stop_wait"]
    /\ UNCHANGED <<routines, checkMutex, ctxDone, events>>
    /\ RunQuiet

StopReturn ==
    /\ mode = "start"
    /\ caller.pc = "stop_wait"
    /\ wgWait(routines)
    /\ caller' = [caller EXCEPT !.pc = "returned"]
    /\ UNCHANGED <<routines, checkMutex, stopCh, ctxDone, events>>
    /\ RunQuiet

\* RunOneShot after launching the goroutines: wg.Wait(), close(errCh), the
\* join of the errors received.
RunOneShotReturn ==
    /\ mode = "oneshot"
    /\ caller.pc = "oneshot_wait"
    /\ wgWait(routines)
    /\ caller' = [pc |-> "returned",
                  err |-> {i \in DOMAIN routines : routines[i].outcome = "checker_error"}]
    /\ UNCHANGED <<routines, checkMutex, stopCh, ctxDone, events>>
    /\ RunQuiet

\* main returns after Stop or RunOneShot (log.Fatalf on its error): the
\* process exits and the goroutines still running end with it.
Exit ==
    /\ caller.pc = "returned"
    /\ caller' = [caller EXCEPT !.pc = "exited"]
    /\ events' = [k \in DOMAIN events |->
                    [events[k] EXCEPT !.calls =
                            [n \in DOMAIN events[k].calls |->
                                IF events[k].calls[n] \in {"go", "running"} THEN "killed"
                                ELSE events[k].calls[n]]]]
    /\ UNCHANGED <<routines, checkMutex, stopCh, ctxDone>>
    /\ RunQuiet

\* After NewService and Start (every monitorOrigin goroutine launched) or
\* after RunOneShot launched its goroutines.
InitRun ==
    /\ mode \in {"start", "oneshot"}
    /\ decoded = NoOrigin
    /\ origin = NoOrigin
    /\ records = <<>>
    /\ pc = "idle"
    /\ rr = NoCall
    /\ ops = <<>>
    /\ calls = 0
    /\ prev = NoPrev
    /\ originStatus = NewOriginStatus
    /\ cyc = NoCycle
    /\ notifications = <<>>
    /\ notifiers \in {<<>>, <<"slack", "discord">>}
    /\ \E ks \in ConfigOrigins : routines = [i \in DOMAIN ks |-> Routine(ks[i])]
    /\ checkMutex = 0
    /\ stopCh = FALSE
    /\ ctxDone = FALSE
    /\ caller = [pc |-> IF mode = "start" THEN "serving" ELSE "oneshot_wait", err |-> {}]
    /\ events = <<>>
    /\ ProbedAnew
    /\ NoStore

NextRun ==
    \/ \E i \in DOMAIN routines : MonitorBegin(i)
    \/ \E i \in DOMAIN routines : Tick(i)
    \/ \E i \in DOMAIN routines : SelectStop(i)
    \/ \E i \in DOMAIN routines : SelectCtx(i)
    \/ \E i \in DOMAIN routines : SelectTick(i)
    \/ \E i \in DOMAIN routines : SelectPark(i)
    \/ \E i \in DOMAIN routines : RunOriginCheck(i)
    \/ \E i \in DOMAIN routines : Lock(i)
    \/ \E i \in DOMAIN routines : List(i)
    \/ \E i \in DOMAIN routines : Probe(i)
    \/ \E i \in DOMAIN routines : Replace(i)
    \/ \E i \in DOMAIN routines : SendNotificationsReturn(i)
    \/ \E k \in DOMAIN events : \E n \in {"slack", "discord"} : NotifyStart(k, n)
    \/ \E k \in DOMAIN events : \E n \in {"slack", "discord"} : NotifyReturn(k, n)
    \/ \E k \in DOMAIN events : NotifyDeadline(k)
    \/ \E k \in DOMAIN events : NotifyDone(k)
    \/ CtxCancel
    \/ Stop
    \/ StopReturn
    \/ RunOneShotReturn
    \/ Exit

SpecRun == InitRun /\ [][NextRun]_vars


\* The scheduling the liveness of Start / Stop / RunOneShot rests on. A
\* runnable goroutine runs, and the backend calls and probes of a cycle
\* return (weak fairness of each step of a routine and of the two Wait
\* calls). sync.Mutex hands the lock to a waiter that has waited long
\* (starvation mode), and select chooses uniformly among its ready cases, so
\* a waiter, or a ready case, that is enabled again and again is taken
\* (strong fairness of Lock and of the two shutdown cases). Nothing is assumed
\* of the ticker, the notifiers, or the caller of Stop.
RoutineFair(i) ==
    /\ WF_vars(i \in DOMAIN routines /\ MonitorBegin(i))
    /\ WF_vars(i \in DOMAIN routines /\ RunOriginCheck(i))
    /\ WF_vars(i \in DOMAIN routines /\ List(i))
    /\ WF_vars(i \in DOMAIN routines /\ Probe(i))
    /\ WF_vars(i \in DOMAIN routines /\ Replace(i))
    /\ WF_vars(i \in DOMAIN routines /\ SendNotificationsReturn(i))
    /\ SF_vars(i \in DOMAIN routines /\ Lock(i))
    /\ SF_vars(i \in DOMAIN routines /\ SelectStop(i))
    /\ SF_vars(i \in DOMAIN routines /\ SelectCtx(i))

SpecRunFair ==
    /\ SpecRun
    /\ \A i \in 1..MaxOrigins : RoutineFair(i)
    /\ WF_vars(StopReturn)
    /\ WF_vars(RunOneShotReturn)


\* ------------------------------------------- one origin, one notifier
\* Start with a single origin and a single notifier: fan-outs of successive
\* cycles of the one loop can be in flight together.
InitNotify ==
    /\ mode = "start"
    /\ decoded = NoOrigin
    /\ origin = NoOrigin
    /\ records = <<>>
    /\ pc = "idle"
    /\ rr = NoCall
    /\ ops = <<>>
    /\ calls = 0
    /\ prev = NoPrev
    /\ originStatus = NewOriginStatus
    /\ cyc = NoCycle
    /\ notifications = <<>>
    /\ notifiers = <<"slack">>
    /\ routines = <<Routine("a")>>
    /\ checkMutex = 0
    /\ stopCh = FALSE
    /\ ctxDone = FALSE
    /\ caller = [pc |-> "serving", err |-> {}]
    /\ events = <<>>
    /\ ProbedAnew
    /\ NoStore

NextNotify ==
    \/ \E i \in DOMAIN routines : MonitorBegin(i)
    \/ \E i \in DOMAIN routines : Tick(i)
    \/ \E i \in DOMAIN routines : SelectStop(i)
    \/ \E i \in DOMAIN routines : SelectCtx(i)
    \/ \E i \in DOMAIN routines : SelectTick(i)
    \/ \E i \in DOMAIN routines : SelectPark(i)
    \/ \E i \in DOMAIN routines : Lock(i)
    \/ \E i \in DOMAIN routines : List(i)
    \/ \E i \in DOMAIN routines : Probe(i)
    \/ \E i \in DOMAIN routines : Replace(i)
    \/ \E i \in DOMAIN routines : SendNotificationsReturn(i)
    \/ \E k \in DOMAIN events : \E n \in {"slack"} : NotifyStart(k, n)
    \/ \E k \in DOMAIN events : \E n \in {"slack"} : NotifyReturn(k, n)
    \/ \E k \in DOMAIN events : NotifyDeadline(k)
    \/ \E k \in DOMAIN events : NotifyDone(k)
    \/ CtxCancel
    \/ Stop
    \/ StopReturn
    \/ Exit

SpecNotify == InitNotify /\ [][NextNotify]_vars


\* ============================================ origin keys, the keyed maps
\* config.CloudflareZoneIDs: zone names are labels the operator chooses.
ZoneConfigs == <<[ZoneID |-> "z1", Name |-> "main"], [ZoneID |-> "z2", Name |-> "main-eu"]>>

\* Entries config.Origins may hold: nothing in the loader restricts the
\* characters of a zone name or of a record name.
OriginEntry(zoneName, name, recordType) == [ZoneName |-> zoneName, Name |-> name, RecordType |-> recordType]

OriginEntries ==
    {OriginEntry(z, n, "A") : z \in {"main", "main-eu"}, n \in {"eu-www", "www"}}
    \cup {OriginEntry("main", "www", "AAAA")}

\* buildZoneMaps: zoneIDMap, zone name -> zone ID.
zoneIDMap == [name \in {ZoneConfigs[i].Name : i \in DOMAIN ZoneConfigs} |->
                 ZoneConfigs[CHOOSE i \in DOMAIN ZoneConfigs :
                     /\ ZoneConfigs[i].Name = name
                     /\ \A j \in DOMAIN ZoneConfigs : ZoneConfigs[j].Name = name => j <= i].ZoneID]

\* fmt.Sprintf("%s-%s-%s", origin.ZoneName, origin.Name, origin.RecordType).
originKey(o) == o.ZoneName \o "-" \o o.Name \o "-" \o o.RecordType

\* buildDNSClients: one client per key, made for the zone of the entry that
\* wrote the key last.
buildDNSClients(origins) ==
    [key \in {originKey(origins[i]) : i \in DOMAIN origins} |->
        zoneIDMap[origins[CHOOSE i \in DOMAIN origins :
                     /\ originKey(origins[i]) = key
                     /\ \A j \in DOMAIN origins : originKey(origins[j]) = key => j <= i].ZoneName]]

\* getDNSClientForOrigin: the client stored under the origin's key, or the
\* default client, which NewService makes for the first zone.
getDNSClientForOrigin(o) ==
    IF originKey(o) \in DOMAIN dnsClients THEN dnsClients[originKey(o)]
    ELSE ZoneConfigs[1].ZoneID

\* getOrInitOriginStatus: the map after the call.
getOrInitOriginStatus(statuses, key) ==
    IF key \in DOMAIN statuses THEN statuses
    ELSE [k \in DOMAIN statuses \cup {key} |->
             IF k = key THEN NewOriginStatus ELSE statuses[k]]

\* The records a cycle of the origin lists and replaces: those of its
\* (name, type) in the zone its client was made for.
PlaceOf(o) == <<getDNSClientForOrigin(o), o.Name, o.RecordType>>

Places == {<<ZoneConfigs[i].ZoneID, o.Name, o.RecordType>> : i \in DOMAIN ZoneConfigs, o \in OriginEntries}

\* What a cycle may select, the levels being left open: a priority and IPs.
KeyPriorities == {100, 50}
KeyTargets == {<<IP4a>>, <<IP4b>>}

SetToSeq(set) == CHOOSE seq \in SeqsUpTo(set, Cardinality(set)) : Range(seq) = set /\ Len(seq) = Cardinality(set)

KeysQuiet == UNCHANGED <<mode, decoded, records, pc, rr, ops, calls, prev, origin, notifiers, originStatus, cyc, notifications, ipHealth, routines, stopCh, ctxDone, caller, events, cfgOrigins, dnsClients>>

\* monitorOrigin before its loop: the origin's state entry is registered.
MonitorRegister(i) ==
    /\ mode = "start"
    /\ originKey(cfgOrigins[i]) \notin DOMAIN originStatusMap
    /\ originStatusMap' = getOrInitOriginStatus(originStatusMap, originKey(cfgOrigins[i]))
    /\ UNCHANGED <<checkMutex, zoneRecords>>
    /\ KeysQuiet

\* checkOrigin up to getOrInitOriginStatus: the mutex is taken, the records
\* are listed through the origin's client (a failed list ends the cycle with
\* nothing written) and the state entry is looked up.
CheckOriginList(i) ==
    /\ checkMutex = 0
    /\ \E listOk \in BOOLEAN :
          IF listOk
          THEN /\ checkMutex' = i
               /\ originStatusMap' = getOrInitOriginStatus(originStatusMap, originKey(cfgOrigins[i]))
          ELSE UNCHANGED <<checkMutex, originStatusMap>>
    /\ UNCHANGED zoneRecords
    /\ KeysQuiet

\* checkOrigin from the selection on: no target (the listed contents are
\* written to the entry), the listed set is the target, or ReplaceRecords,
\* which may fail after its creates; then the mutex is released.
CheckOriginFinish(i) ==
    /\ checkMutex = i
    /\ checkMutex' = 0
    /\ LET o == cfgOrigins[i]
           key == originKey(o)
           listed == zoneRecords[PlaceOf(o)]
       IN \E priority \in KeyPriorities, target \in KeyTargets, outcome \in {"no_healthy", "same", "replaced", "replace_error"} :
          CASE outcome = "no_healthy" ->
                 /\ originStatusMap' = [originStatusMap EXCEPT ![key] =
                        updateOriginStatus(@, priority, SetToSeq(listed), TRUE)]
                 /\ UNCHANGED zoneRecords
            [] outcome = "same" ->
                 /\ listed = Range(target)
                 /\ originStatusMap' = [originStatusMap EXCEPT ![key] =
                        updateOriginStatus(@, priority, target, TRUE)]
                 /\ UNCHANGED zoneRecords
            [] outcome = "replaced" ->
                 /\ listed # Range(target)
                 /\ zoneRecords' = [zoneRecords EXCEPT ![PlaceOf(o)] = Range(target)]
                 /\ originStatusMap' = [originStatusMap EXCEPT ![key] =
                        updateOriginStatus(@, priority, target, TRUE)]
            [] outcome = "replace_error" ->
                 /\ listed # Range(target)
                 /\ zoneRecords' \in {zoneRecords, [zoneRecords EXCEPT ![PlaceOf(o)] = @ \cup Range(target)]}
                 /\ UNCHANGED originStatusMap
    /\ KeysQuiet

\* After NewService (and Start's launch of the loops, or RunOneShot's of the
\* one-shot goroutines): the clients are built, the state store is empty.
InitKeys ==
    /\ mode \in {"start", "oneshot"}
    /\ decoded = NoOrigin
    /\ origin = NoOrigin
    /\ records = <<>>
    /\ pc = "idle"
    /\ rr = NoCall
    /\ ops = <<>>
    /\ calls = 0
    /\ prev = NoPrev
    /\ originStatus = NewOriginStatus
    /\ cyc = NoCycle
    /\ notifications = <<>>
    /\ notifiers = <<>>
    /\ routines = <<>>
    /\ checkMutex = 0
    /\ stopCh = FALSE
    /\ ctxDone = FALSE
    /\ caller = NoCaller
    /\ events = <<>>
    /\ ProbedAnew
    /\ cfgOrigins \in {os \in SeqsUpTo(OriginEntries, MaxOrigins) : Len(os) >= 1}
    /\ dnsClients = buildDNSClients(cfgOrigins)
    /\ originStatusMap = <<>>
    /\ zoneRecords = [place \in Places |-> {}]

NextKeys ==
    \/ \E i \in DOMAIN cfgOrigins : MonitorRegister(i)
    \/ \E i \in DOMAIN cfgOrigins : CheckOriginList(i)
    \/ \E i \in DOMAIN cfgOrigins : CheckOriginFinish(i)

SpecKeys == InitKeys /\ [][NextKeys]_vars


\* ================================================================ claims
\* A ReplaceRecords call has been made and has listed, or has returned.
InCall == pc \in {"rr_call", "rr_create", "rr_delete", "rr_ret"}

PastList == pc \in {"rr_create", "rr_delete", "rr_ret"}

Returned == pc = "rr_ret"

ReturnedNil == pc = "rr_ret" /\ rr.err = "none"

\* The desired set D of a call: the de-duplicated, non-empty newContents.
DesiredSet == Range(rr.desired)

CountOf(recs, c) == Cardinality({i \in DOMAIN recs : recs[i].Content = c})

NoDuplicateContent(recs) == \A c \in ContentSet(recs) : CountOf(recs, c) = 1

OpIdx(kind) == {i \in DOMAIN ops : ops[i].op = kind}

C2_CreatesBeforeDeletes ==
    InCall =>
        /\ \A i \in OpIdx("create"), j \in OpIdx("delete") : i < j
        /\ OpIdx("delete") # {} =>
              /\ \A i \in OpIdx("create") : ops[i].ok
              /\ {ops[i].content : i \in OpIdx("create")} = Range(rr.missing)
              /\ Range(rr.missing) \subseteq ContentSet(records)

C2_Witness ==
    /\ pc = "rr_delete"
    /\ OpIdx("create") # {}
    /\ OpIdx("delete") # {}

\* C3 as stated: during a ReplaceRecords call with a non-empty desired set D
\* the record set a lister sees is never a strict subset of the original R
\* with nothing added.
C3_NeverStrictSubset ==
    (PastList /\ DesiredSet # {}) => ~(IdSet(records) \subseteq IdSet(rr.start) /\ IdSet(records) # IdSet(rr.start))

\* C3 as amended: once an original record has been deleted the observed
\* contents are a superset of keep \cup missing (= D); every kept content is
\* present throughout; on a nil return the contents are exactly D; and the set
\* is a strict subset of the original R with nothing added only when nothing
\* of D was missing.
C3_AtomicSwap ==
    PastList =>
        /\ (IdSet(rr.start) \ IdSet(records) # {}) => DesiredSet \subseteq ContentSet(records)
        /\ (DesiredSet \cap ContentSet(rr.start)) \subseteq ContentSet(records)
        /\ ReturnedNil => ContentSet(records) = DesiredSet
        /\ (IdSet(records) \subseteq IdSet(rr.start) /\ IdSet(records) # IdSet(rr.start))
              => Len(rr.missing) = 0

C3_Witness ==
    /\ pc = "rr_delete"
    /\ Len(rr.missing) > 0
    /\ IdSet(rr.start) \ IdSet(records) # {}
    /\ DesiredSet \cap ContentSet(rr.start) # {}

\* C4: when ReplaceRecords returns nil the provider holds every member of D
\* exactly once and no content outside D.
C4_ExactlyDesired ==
    ReturnedNil =>
        /\ \A c \in DesiredSet : CountOf(records, c) = 1
        /\ ContentSet(records) \subseteq DesiredSet

C4_Witness ==
    /\ ReturnedNil
    /\ ~NoDuplicateContent(rr.start)
    /\ OpIdx("create") # {}
    /\ Cardinality(DesiredSet) = 2

\* C5 as stated: if the records at the call are non-empty and their contents
\* equal D as a set, the call issues no create or delete request.
C5_NoRequestWhenEqual ==
    (PastList /\ Len(rr.start) > 0 /\ ContentSet(rr.start) = DesiredSet) => ops = <<>>

\* C5 as amended: if the records at the call are non-empty, no two of them hold
\* the same content and their contents equal D as a set, the call issues no
\* create or delete request; and a call repeated with the same argument right
\* after one that returned nil issues none.
C5_Idempotent ==
    /\ (PastList /\ Len(rr.start) > 0 /\ NoDuplicateContent(rr.start)
          /\ ContentSet(rr.start) = DesiredSet) => ops = <<>>
    /\ (InCall /\ prev.made /\ prev.ok) => ops = <<>>

C5_Witness ==
    /\ ReturnedNil
    /\ prev.made /\ prev.ok
    /\ Len(rr.start) = 2
    /\ Len(rr.listed) = 2
    /\ ContentSet(rr.start) = DesiredSet


\* ------------------------------------------------ claims on Service.checkOrigin
\* The cycle got past the list call: it has probed and selected.
CycleSeen == mode = "service" /\ cyc.outcome \notin {"none", "no_levels", "list_error"}

\* LevelsOf over the origins of the deployments, computed once.
LevelsOfOrigins == [o \in Origins |-> LevelsOf(o)]

LevelsNow == IF origin \in Origins THEN LevelsOfOrigins[origin] ELSE LevelsOf(origin)

\* D: the selected level's IPs after the family filter, as a set.
TargetSet == Range(filterValidIPs(origin.RecordType, cyc.selected.ips))

\* Every IP of the level answered its probe healthy in this cycle.
FullyHealthy(level) ==
    /\ Len(level.IPs) > 0
    /\ \A i \in DOMAIN level.IPs : cyc.health[level.IPs[i]]

\* Every IP of the level was probed (a wrong-family IP is never probed) and
\* answered healthy.
ProbesHealthy(level) ==
    /\ FullyHealthy(level)
    /\ \A i \in DOMAIN level.IPs : validateIPType(origin.RecordType, level.IPs[i]) = "ok"

C6_ListedEqualsTarget ==
    /\ CycleSeen
    /\ cyc.selected.ok
    /\ TargetSet # {}
    /\ ContentSet(cyc.listed) = TargetSet

\* C6: when the listed contents equal the selected, family-filtered target D
\* as sets, the cycle makes no backend request after the list call (no
\* ReplaceRecords call, no create, no delete), sends no notification, and
\* writes (p_tgt, D, initialized) to the origin state.
C6_NoMutationWhenEqual ==
    C6_ListedEqualsTarget =>
        /\ pc = "checked"
        /\ rr = NoCall
        /\ ops = <<>>
        /\ records = cyc.listed
        /\ notifications = <<>>
        /\ originStatus.Initialized
        /\ originStatus.CurrentPriority = cyc.selected.priority
        /\ Range(originStatus.CurrentIPs) = TargetSet

C6_Witness ==
    /\ C6_ListedEqualsTarget
    /\ pc = "checked"
    /\ notifiers # <<>>
    /\ Len(cyc.listed) > Cardinality(TargetSet)
    /\ originStatus # cyc.statusBefore

\* C7: the level the selector returns has at least one IP, every IP of it
\* probed healthy, and it is returned with its full IP list; with
\* returnToPriority=true the selector returns a level exactly when some level
\* is healthy in that sense, and then the one of highest priority.
C7_SelectorHealthyLevel ==
    CycleSeen =>
        \A levels \in {LevelsNow} :
            /\ cyc.selected.ok =>
                  \E i \in DOMAIN levels :
                      /\ levels[i].Priority = cyc.selected.priority
                      /\ ProbesHealthy(levels[i])
                      /\ cyc.selected.ips = levels[i].IPs
            /\ origin.ReturnToPriority =>
                  /\ cyc.selected.ok <=> \E i \in DOMAIN levels : ProbesHealthy(levels[i])
                  /\ cyc.selected.ok =>
                        \A i \in DOMAIN levels :
                            ProbesHealthy(levels[i]) =>
                                levels[i].Priority <= cyc.selected.priority

\* A higher level with a healthy IP next to an unhealthy one was passed over.
C7_Witness ==
    /\ CycleSeen
    /\ origin.ReturnToPriority
    /\ cyc.selected.ok
    /\ \E i \in DOMAIN LevelsNow :
          /\ LevelsNow[i].Priority > cyc.selected.priority
          /\ \E j, k \in DOMAIN LevelsNow[i].IPs :
                /\ cyc.health[LevelsNow[i].IPs[j]]
                /\ ~cyc.health[LevelsNow[i].IPs[k]]

\* The origin is served from a level below maxPriority and that level is
\* fully healthy in this cycle.
C8_ServedFromLowerLevel ==
    /\ CycleSeen
    /\ ~origin.ReturnToPriority
    /\ cyc.statusBefore.Initialized
    /\ cyc.statusBefore.CurrentPriority < cyc.maxPriority
    /\ \E i \in DOMAIN LevelsNow :
          /\ LevelsNow[i].Priority = cyc.statusBefore.CurrentPriority
          /\ ProbesHealthy(LevelsNow[i])
          /\ Range(LevelsNow[i].IPs) = ContentSet(cyc.listed)
          /\ Range(LevelsNow[i].IPs) = Range(cyc.statusBefore.CurrentIPs)

\* C8: with returnToPriority=false, a cycle that finds the origin served from
\* a level below maxPriority, with that level still fully healthy, makes no
\* backend mutation, sends no event and leaves the origin state as it was.
C8_Hysteresis ==
    C8_ServedFromLowerLevel =>
        /\ pc = "checked"
        /\ ops = <<>>
        /\ records = cyc.listed
        /\ notifications = <<>>
        /\ originStatus.CurrentPriority = cyc.statusBefore.CurrentPriority
        /\ Range(originStatus.CurrentIPs) = Range(cyc.statusBefore.CurrentIPs)

C9_NoLevelHealthy ==
    /\ CycleSeen
    /\ \A levels \in {LevelsNow} : \A i \in DOMAIN levels : ~FullyHealthy(levels[i])

\* C9: when no level is fully healthy in a cycle, the cycle makes no create
\* and no delete (no ReplaceRecords call at all), sends no notification, and
\* the provider's records are what the cycle listed.
C9_RecordsPreserved ==
    C9_NoLevelHealthy =>
        /\ pc = "checked"
        /\ rr = NoCall
        /\ ops = <<>>
        /\ records = cyc.listed
        /\ notifications = <<>>

\* Some IPs are healthy, no level is, and there are records and notifiers.
C9_Witness ==
    /\ C9_NoLevelHealthy
    /\ pc = "checked"
    /\ Len(records) > 0
    /\ notifiers # <<>>
    /\ \E ip \in DOMAIN cyc.health : cyc.health[ip]

\* The address family of a content by its textual form.
TextFamily(text) ==
    CASE text \in {IP4a, IP4b, IP4c} -> "IPv4"
      [] text \in {IP6a, IP4in6} -> "IPv6"
      [] OTHER -> "none"

RequiredFamily(recordType) ==
    CASE recordType = "A" -> "IPv4"
      [] recordType = "AAAA" -> "IPv6"
      [] OTHER -> "unsupported"

\* C10: every record a cycle creates has a content that is an IPv4 literal
\* when the origin's record type is A and an IPv6 literal when it is AAAA.
C10_FamilySafety ==
    mode = "service" =>
        \A i \in DOMAIN ops :
            (ops[i].op = "create" /\ ops[i].ok) =>
                TextFamily(ops[i].content) = RequiredFamily(origin.RecordType)


\* The cycle has ended on an error of the list call or of ReplaceRecords.
C11_BackendError ==
    /\ mode = "service"
    /\ pc = "checked"
    /\ cyc.outcome \in {"list_error", "replace_error"}

\* C11: a cycle in which GetDNSRecords or ReplaceRecords returned an error
\* ends with the origin's state entry as it was before the cycle and with no
\* notification handed to any notifier.
C11_ErrorLeavesState ==
    C11_BackendError =>
        /\ originStatus = cyc.statusBefore
        /\ notifications = <<>>

\* ReplaceRecords failed after it had already changed the provider's records.
C11_Witness ==
    /\ C11_BackendError
    /\ cyc.outcome = "replace_error"
    /\ rr.err \in {"create", "delete"}
    /\ records # cyc.listed
    /\ notifiers # <<>>
    /\ ~sameIPSet(cyc.statusBefore.CurrentIPs, cyc.selectedIPs)


\* The delete requests of the running call, by record ID.
DeleteTried(id) == \E i \in DOMAIN ops : ops[i].op = "delete" /\ ops[i].id = id

DeleteDone(id) == \E i \in DOMAIN ops : ops[i].op = "delete" /\ ops[i].id = id /\ ops[i].ok

\* C12: a cycle whose ReplaceRecords call created every missing record and
\* then failed on a delete still writes (p_tgt, D, initialized) to the
\* origin state.
C12_PartialDeleteUpdatesState ==
    (/\ mode = "service"
     /\ pc = "checked"
     /\ cyc.outcome = "replace_error"
     /\ rr.err = "delete") =>
        /\ originStatus.Initialized
        /\ originStatus.CurrentPriority = cyc.selected.priority
        /\ Range(originStatus.CurrentIPs) = Range(cyc.selectedIPs)

\* The call, given something to converge to, got past its creates: the
\* delete phase ran or was not needed.
C13_DeletePhase ==
    /\ pc = "rr_ret"
    /\ rr.err \in {"none", "delete"}
    /\ DesiredSet # {}

\* C13: once ReplaceRecords has returned from its delete phase, a delete was
\* attempted for every surplus record, and the call returned an error iff at
\* least one of those deletes failed.
C13_DeleteEverySurplus ==
    C13_DeletePhase =>
        /\ \A i \in DOMAIN rr.recordsToDelete : DeleteTried(rr.recordsToDelete[i].ID)
        /\ rr.err = "delete" <=> \E i \in DOMAIN ops : ops[i].op = "delete" /\ ~ops[i].ok

\* C14: when ReplaceRecords has returned a create error, a delete was issued
\* for every record the call had created, and if all those deletes succeeded
\* the provider's records are those of the start of the call.
C14_CreateErrorRollsBack ==
    (pc = "rr_ret" /\ rr.err = "create") =>
        /\ \A id \in rr.created : DeleteTried(id)
        /\ (\A id \in rr.created : DeleteDone(id)) => records = rr.start

\* C15: when ReplaceRecords has returned a create error, no delete was issued
\* against a record that existed when the call began, and all those records
\* are still there.
C15_CreateErrorKeepsOld ==
    (pc = "rr_ret" /\ rr.err = "create") =>
        /\ \A id \in IdSet(rr.start) : ~DeleteTried(id)
        /\ \A i \in DOMAIN rr.start : \E j \in DOMAIN records : records[j] = rr.start[i]

\* A create failed in a call that had records to delete.
C15_Witness ==
    /\ pc = "rr_ret"
    /\ rr.err = "create"
    /\ Len(rr.recordsToDelete) > 0
    /\ Len(rr.missing) > 0


\* The cycle selected a target and did not end on a backend error, in a
\* service that has notifiers to hand an event to.
C16_CycleWithTarget ==
    /\ mode = "service"
    /\ pc = "checked"
    /\ cyc.outcome \in {"same", "replaced"}
    /\ notifiers # <<>>

\* (a) the target priority differs from the current priority, (b) the target
\* IPs differ from the listed IPs as sets, (c) the state entry was not
\* initialized before the cycle.
C16_Transition ==
    \/ cyc.selected.priority # cyc.currentPriority
    \/ Range(cyc.selectedIPs) # Range(cyc.currentIPs)
    \/ ~cyc.statusBefore.Initialized

\* C16: a cycle hands a FailoverEvent to the notifiers if and only if the
\* target priority differs from the current one, or the IP sets differ, or
\* the state was uninitialized before the cycle.
C16_EventIffTransition ==
    C16_CycleWithTarget => (notifications # <<>> <=> C16_Transition)


C17_Replaced ==
    /\ mode = "service"
    /\ pc = "checked"
    /\ cyc.outcome = "replaced"

\* The event of a transition of this cycle, by the fields the claim names.
C17_EventOfCycle(event) ==
    /\ event.OldIPs = cyc.currentIPs
    /\ event.OldPriority = cyc.currentPriority
    /\ event.NewIPs = cyc.selectedIPs
    /\ event.NewPriority = cyc.selected.priority
    /\ event.MaxPriority = cyc.maxPriority
    /\ event.IsPriorityIP <=> cyc.selected.priority = cyc.maxPriority
    /\ event.IsFailoverIP <=> cyc.selected.priority < cyc.maxPriority

\* C17: after a cycle whose ReplaceRecords call returned nil the state entry
\* is (p_tgt, D, initialized), and every configured notifier has been handed,
\* exactly once, one and the same FailoverEvent of that transition.
C17_StateAndEvent ==
    C17_Replaced =>
        /\ originStatus = [CurrentPriority |-> cyc.selected.priority,
                           CurrentIPs |-> cyc.selectedIPs, Initialized |-> TRUE]
        /\ Range(cyc.selectedIPs) = TargetSet
        /\ Range(cyc.selectedIPs) = ContentSet(records)
        /\ Len(notifications) = Len(notifiers)
        /\ \A i \in DOMAIN notifiers :
              /\ notifications[i].notifier = notifiers[i]
              /\ notifications[i].event = notifications[1].event
              /\ C17_EventOfCycle(notifications[i].event)

\* A failover to a lower level, with two notifiers.
C17_Witness ==
    /\ C17_Replaced
    /\ Len(notifiers) = 2
    /\ cyc.selected.priority < cyc.maxPriority
    /\ cyc.statusBefore.Initialized


\* Cold start: the state entry is uninitialized, the provider lists no
\* records, the top level is fully healthy, the backend calls succeed and
\* there are notifiers to hand the event to.
C18_ColdStart ==
    /\ mode = "service"
    /\ pc = "checked"
    /\ cyc.outcome = "replaced"
    /\ ~cyc.statusBefore.Initialized
    /\ cyc.listed = <<>>
    /\ ProbesHealthy(LevelsNow[1])
    /\ notifiers # <<>>

\* What the claim expects of the cycle's requests and of the state entry.
C18_CreatesTopLevel ==
    /\ \A i \in DOMAIN ops : ops[i].op = "create" /\ ops[i].ok
    /\ [i \in DOMAIN ops |-> ops[i].content] = LevelsNow[1].IPs
    /\ originStatus = [CurrentPriority |-> cyc.maxPriority,
                       CurrentIPs |-> LevelsNow[1].IPs, Initialized |-> TRUE]

\* C18: on a cold start with the top level fully healthy the cycle creates
\* exactly the top level's IPs, sets the state to (maxPriority, those IPs)
\* and hands the notifiers one event whose reason is "Switching to priority
\* level <maxPriority>".
C18_ColdStartEvent ==
    C18_ColdStart =>
        /\ C18_CreatesTopLevel
        /\ \A i \in DOMAIN notifications :
              notifications[i].event.Reason =
                  <<"Switching to priority level", cyc.maxPriority>>


\* The levels a selection may return: all of them with returnToPriority,
\* else those not above the current priority.
C19_Eligible(levels, currentPriority, returnToPriority) ==
    {i \in DOMAIN levels : returnToPriority \/ levels[i].Priority <= currentPriority}

\* A level all of whose IPs are of the record type's family and healthy in h.
C19_Healthy(recordType, h, level) ==
    /\ Len(level.IPs) > 0
    /\ \A i \in DOMAIN level.IPs :
          validateIPType(recordType, level.IPs[i]) = "ok" /\ h[level.IPs[i]]

\* The one result the inputs allow: the current level if the policy is false
\* and it is healthy, else the eligible healthy level of highest priority,
\* else no target.
C19_Result(recordType, levels, h, currentPriority, returnToPriority) ==
    LET healthy == {i \in DOMAIN levels : C19_Healthy(recordType, h, levels[i])}
        current == {i \in healthy : levels[i].Priority = currentPriority}
        eligible == healthy \cap C19_Eligible(levels, currentPriority, returnToPriority)
    IN IF ~returnToPriority /\ current # {}
       THEN LET i == CHOOSE i \in current : TRUE
            IN [ok |-> TRUE, priority |-> currentPriority, ips |-> levels[i].IPs]
       ELSE IF eligible # {}
       THEN LET i == CHOOSE i \in eligible :
                        \A j \in eligible : levels[j].Priority <= levels[i].Priority
            IN [ok |-> TRUE, priority |-> levels[i].Priority, ips |-> levels[i].IPs]
       ELSE None

\* C19: what the selector returns in a cycle is a function of the levels, the
\* per-IP health of the cycle, the current priority and returnToPriority
\* (with the origin's record type): it is the value that function has for
\* the cycle's inputs, whatever the state entry and the records are.
C19_SelectorPure ==
    CycleSeen =>
        cyc.selected = C19_Result(origin.RecordType, LevelsNow, cyc.health,
                                  cyc.currentPriority, origin.ReturnToPriority)

\* A selection made with an initialized state entry that names another level
\* than the one selected.
C19_Witness ==
    /\ CycleSeen
    /\ cyc.selected.ok
    /\ cyc.statusBefore.Initialized
    /\ cyc.statusBefore.CurrentPriority # cyc.selected.priority
    /\ Len(cyc.listed) > 0


\* ------------------------------------------------ claims on config loading
FirstIdx(seq, x) ==
    CHOOSE k \in DOMAIN seq : seq[k] = x /\ \A m \in 1..(k - 1) : seq[m] # x

\* out holds the non-empty values of in, each once, in order of first
\* appearance.
IsDedupOf(out, in) ==
    /\ \A i, j \in DOMAIN out : i # j => out[i] # out[j]
    /\ Range(out) = Range(in) \ {""}
    /\ \A i, j \in DOMAIN out : i < j => FirstIdx(in, out[i]) < FirstIdx(in, out[j])

\* The configuration was loaded and its origin has no priority_levels: it
\* is configured through the legacy fields alone.
C20_LegacyOnly ==
    /\ mode = "config"
    /\ pc = "loaded"
    /\ decoded.PriorityLevels = <<>>

\* C20 as stated: an origin configured only through priorityFailoverIps /
\* failoverIps has exactly two levels after loading, priority 100 then
\* priority 0, each its field's IPs de-duplicated in input order.
C20_TwoLegacyLevels ==
    (/\ C20_LegacyOnly
     /\ (Range(decoded.PriorityFailoverIPs) \cup Range(decoded.FailoverIPs)) \ {""} # {}) =>
        /\ Len(origin.PriorityLevels) = 2
        /\ origin.PriorityLevels[1].Priority = 100
        /\ origin.PriorityLevels[2].Priority = 0
        /\ IsDedupOf(origin.PriorityLevels[1].IPs, decoded.PriorityFailoverIPs)
        /\ IsDedupOf(origin.PriorityLevels[2].IPs, decoded.FailoverIPs)

\* C20, amended: each legacy field that holds at least one non-empty IP gives
\* one level, priority 100 for priorityFailoverIps and priority 0 for
\* failoverIps, in that order, holding the field's IPs de-duplicated in input
\* order; a field without one gives none. EffectivePriorityLevels returns the
\* same levels before and after loading.
C20_LegacyMapping ==
    C20_LegacyOnly =>
        LET levels == origin.PriorityLevels
            hasHigh == Range(decoded.PriorityFailoverIPs) \ {""} # {}
            hasLow == Range(decoded.FailoverIPs) \ {""} # {}
        IN /\ Len(levels) = (IF hasHigh THEN 1 ELSE 0) + (IF hasLow THEN 1 ELSE 0)
           /\ hasHigh => /\ levels[1].Priority = 100
                         /\ IsDedupOf(levels[1].IPs, decoded.PriorityFailoverIPs)
           /\ hasLow => /\ levels[Len(levels)].Priority = 0
                        /\ IsDedupOf(levels[Len(levels)].IPs, decoded.FailoverIPs)
           /\ EffectivePriorityLevels(decoded) = levels
           /\ EffectivePriorityLevels(origin) = levels

\* Both fields are used, one of them with a repeated IP and an empty string.
C20_Witness ==
    /\ C20_LegacyOnly
    /\ Len(origin.PriorityLevels) = 2
    /\ Len(decoded.PriorityFailoverIPs) > Len(origin.PriorityLevels[1].IPs)
    /\ Len(origin.PriorityLevels[2].IPs) = 2

\* The IPs the levels of priority p hold, in the order the list gives them.
RECURSIVE C21_InputIPs(_, _)
C21_InputIPs(levels, p) ==
    IF levels = <<>> THEN <<>>
    ELSE (IF Head(levels).Priority = p THEN Head(levels).IPs ELSE <<>>)
         \o C21_InputIPs(Tail(levels), p)

\* The list NormalizePriorityLevels was given when the origin was loaded:
\* priority_levels when it yields a level, else the legacy levels.
C21_Input ==
    IF \E i \in DOMAIN decoded.PriorityLevels : Range(decoded.PriorityLevels[i].IPs) \ {""} # {}
    THEN decoded.PriorityLevels
    ELSE legacyPriorityLevels(decoded.PriorityFailoverIPs, decoded.FailoverIPs)

\* C21: for every input list of levels the normalized list has at least one
\* IP in every level, no IP twice within a level and no two levels of the
\* same priority; the levels of one priority are merged into one level that
\* holds their IPs de-duplicated in order of first appearance, and a priority
\* has a level exactly when the input holds a non-empty IP for it.
C21_NormalizedLevels ==
    (mode = "config" /\ pc # "decoded") =>
        LET levels == origin.PriorityLevels IN
        /\ levels = NormalizePriorityLevels(C21_Input)
        /\ \A i \in DOMAIN levels :
              /\ Len(levels[i].IPs) >= 1
              /\ \A j, k \in DOMAIN levels[i].IPs : j # k => levels[i].IPs[j] # levels[i].IPs[k]
              /\ IsDedupOf(levels[i].IPs, C21_InputIPs(C21_Input, levels[i].Priority))
        /\ \A i, j \in DOMAIN levels : i # j => levels[i].Priority # levels[j].Priority
        /\ \A i \in DOMAIN C21_Input :
              Range(C21_InputIPs(C21_Input, C21_Input[i].Priority)) \ {""} # {} =>
                  \E j \in DOMAIN levels : levels[j].Priority = C21_Input[i].Priority

\* Two levels of one priority that share IPs were merged into one level.
C21_Witness ==
    /\ mode = "config"
    /\ pc = "loaded"
    /\ decoded.PriorityLevels = LevelsMerge
    /\ Len(origin.PriorityLevels) = 2
    /\ origin.PriorityLevels[1] = Level(50, <<IP4b, IP4a, IP4c>>)


\* ------------------------------------------ claims on Start and RunOneShot
\* C22: for any single origin at most one reconciliation cycle is in
\* progress at any time, whether its goroutines were started by Start or by
\* RunOneShot: of the goroutines working on one origin key at most one is
\* between the start and the end of checkOrigin's body, so the backend
\* requests of two cycles for the origin never interleave.
C22_OneCyclePerOrigin ==
    mode \in {"start", "oneshot"} =>
        \A i, j \in DOMAIN routines :
            (i # j /\ routines[i].key = routines[j].key) =>
                ~(InCycle(routines[i]) /\ InCycle(routines[j]))

\* Two goroutines work on one origin: one is in its ReplaceRecords call, the
\* other has called checkOrigin and waits.
C22_Witness ==
    \E i, j \in DOMAIN routines :
        /\ i # j
        /\ routines[i].key = routines[j].key
        /\ routines[i].pos = "replace"
        /\ routines[j].pos = "lock"

\* C23 as stated: origin loops are independent, so the cycle of one origin
\* never has to wait for the probes or backend calls of another origin's
\* cycle: no goroutine that has called checkOrigin is kept from starting its
\* cycle while a cycle of a different origin is in progress.
C23_NoCrossOriginWait ==
    mode \in {"start", "oneshot"} =>
        \A i, j \in DOMAIN routines :
            (routines[i].key # routines[j].key /\ InCycle(routines[j])) =>
                routines[i].pos # "lock"


\* C24: notification dispatch never blocks the reconciliation loop:
\* sendNotifications returns without waiting for any Notify call, so a cycle
\* that has started its fan-out ends (checkOrigin returns and releases the
\* mutex, after which the origin's next cycle can start) even when no
\* notifier ever returns.
C24_DispatchNeverBlocks ==
    \A i \in 1..MaxOrigins :
        (i \in DOMAIN routines /\ routines[i].pos = "notify") ~>
            (i \in DOMAIN routines /\ routines[i].pos # "notify" /\ checkMutex # i)

\* A routine is in a later cycle while a Notify call of the fan-out it
\* started in an earlier cycle has not returned.
C24_Witness ==
    \E i \in DOMAIN routines, k \in DOMAIN events :
        /\ mode = "start"
        /\ routines[i].pos = "probe"
        /\ events[k] # NoEvent
        /\ events[k].by = i
        /\ ~events[k].fresh
        /\ \A n \in DOMAIN events[k].calls : events[k].calls[n] = "running"

\* C25: Stop signals every origin loop to exit and returns only after every
\* loop has exited; every cycle in progress terminating, every loop
\* eventually exits and Stop eventually returns.
C25_StopDrains ==
    /\ [](mode = "start" =>
            /\ caller.pc \in {"stop_wait", "returned", "exited"} => stopCh
            /\ caller.pc \in {"returned", "exited"} =>
                  \A i \in DOMAIN routines : routines[i].pos = "exited")
    /\ (mode = "start" /\ caller.pc = "stop_wait") ~>
            (caller.pc = "returned" /\ \A i \in DOMAIN routines : routines[i].pos = "exited")

\* Stop has returned after waiting for a loop that was inside a cycle, with a
\* tick waiting, when the signal was raised.
C25_Witness ==
    /\ mode = "start"
    /\ caller.pc = "returned"
    /\ ~ctxDone
    /\ Len(routines) = 2
    /\ \A i \in DOMAIN routines : routines[i].pos = "exited" /\ routines[i].tick


\* C26 as stated: once the shutdown signal has been raised (stopCh closed or
\* the context cancelled) every loop exits at its next suspension point: no
\* loop that is at its select, about to evaluate it or blocked in it, takes
\* the ticker case and starts a new cycle.
C26_NoCycleAfterSignal ==
    [][\A i \in DOMAIN routines :
         (mode = "start" /\ (stopCh \/ ctxDone) /\ routines[i].pos \in {"loop", "parked"}) =>
             routines'[i].pos # "lock"]_vars

\* The part of C26 the code keeps: a loop blocked in its select when the
\* signal is raised starts no further cycle.
C26_BlockedLoopExits ==
    [][\A i \in DOMAIN routines :
         (mode = "start" /\ (stopCh \/ ctxDone) /\ routines[i].pos = "parked") =>
             routines'[i].pos \in {"parked", "exited"}]_vars


\* C27: shutting down the loops (Stop, or cancelling the context given to
\* Start / RunOneShot) never cancels the context passed to a Notify call
\* that has started: while a call of a fan-out has not returned, the fan-out
\* context is live or past its own 30 s deadline, and no Stop or context
\* cancellation step changes it.
C27_NotifyContextDecoupled ==
    /\ [](\A k \in DOMAIN events :
            (events[k] # NoEvent /\ \E n \in DOMAIN events[k].calls : events[k].calls[n] # "returned") =>
                events[k].ctx.state \in {"live", "deadline"})
    /\ [][(stopCh' # stopCh \/ ctxDone' # ctxDone) =>
            \A k \in DOMAIN events : events'[k] = events[k]]_vars

\* Stop has returned and the context is cancelled while a Notify call is
\* running under a live fan-out context.
C27_Witness ==
    /\ mode = "start"
    /\ caller.pc = "returned"
    /\ stopCh /\ ctxDone
    /\ \E k \in DOMAIN events :
          /\ events[k] # NoEvent
          /\ events[k].ctx.state = "live"
          /\ \E n \in DOMAIN events[k].calls : events[k].calls[n] = "running"


\* The routine's only cycle in one-shot mode failed: the checker could not
\* be built, the backend list failed, or ReplaceRecords returned an error.
C28_Failed(r) == r.outcome \in {"checker_error", "list_error", "replace_error"}

\* C28 as stated: RunOneShot runs one cycle for every origin and returns ok
\* if and only if every origin's cycle succeeded; otherwise the error it
\* returns is the join of the errors of all failing origins.
C28_JoinOfAllFailures ==
    (mode = "oneshot" /\ caller.pc \in {"returned", "exited"}) =>
        /\ \A i \in DOMAIN routines : routines[i].pos = "exited"
        /\ caller.err = {i \in DOMAIN routines : C28_Failed(routines[i])}

\* C29 as stated: in one-shot mode every Notify call a cycle started has
\* returned before RunOneShot returns and the process exits.
C29_NotifyBeforeExit ==
    (mode = "oneshot" /\ caller.pc \in {"returned", "exited"}) =>
        \A k \in DOMAIN events :
            events[k] # NoEvent => \A n \in DOMAIN events[k].calls : events[k].calls[n] = "returned"


\* ------------------------------------------------- claims on convergence
\* A backend request (list, create, delete) of the running cycle has failed.
C30_BackendFailed ==
    \/ cyc.outcome \in {"list_error", "replace_error"}
    \/ rr.err \in {"list", "create", "delete"}

\* Some level of the origin is fully healthy: every IP of it is of the
\* record type's family and its probes succeed.
C30_SomeLevelHealthy ==
    \E i \in DOMAIN LevelsOf(origin) :
        checkPriorityLevel(origin.RecordType, ipHealth, LevelsOf(origin)[i])

\* The cycle that has just ended chose a level, found the provider's record
\* contents equal to its IP set, issued no request and sent no event, and
\* the state is (that priority, that set).
C30_Converged ==
    /\ cyc.selected.ok
    /\ cyc.outcome = "same"
    /\ ops = <<>>
    /\ notifications = <<>>
    /\ Range(collectRecordIPs(records)) = Range(cyc.selected.ips)
    /\ originStatus.Initialized
    /\ originStatus.CurrentPriority = cyc.selected.priority
    /\ Range(originStatus.CurrentIPs) = Range(cyc.selected.ips)

\* The provider's record contents are the IP set of a fully healthy level and
\* the state is (that level's priority, that set).
C30_SettledOnLevel ==
    \E i \in DOMAIN LevelsOf(origin) :
        LET level == LevelsOf(origin)[i] IN
        /\ checkPriorityLevel(origin.RecordType, ipHealth, level)
        /\ Range(collectRecordIPs(records)) = Range(level.IPs)
        /\ originStatus.Initialized
        /\ originStatus.CurrentPriority = level.Priority
        /\ Range(originStatus.CurrentIPs) = Range(level.IPs)

\* No ReplaceRecords call is in progress, and neither a request nor an event
\* has been issued since the last cycle began.
C30_Quiet ==
    /\ pc \in {"idle", "checked"}
    /\ ops = <<>>
    /\ notifications = <<>>

\* C30 as stated: per-IP health constant, at least one level fully healthy
\* and backend calls eventually succeeding, under fair ticking the record
\* contents eventually equal the IP set of the level the selector chooses,
\* with the state equal to (that priority, that set), and from then on no
\* cycle issues a mutation or an event.
C30_ConvergesWhenSomeLevelHealthy ==
    (C30_SomeLevelHealthy /\ <>[]~C30_BackendFailed) =>
        <>[](/\ C30_Quiet
             /\ C30_SettledOnLevel
             /\ pc = "checked" => C30_Converged)

\* C30, amended: per-IP health constant and backend calls eventually
\* succeeding, under fair ticking the cycles eventually issue no mutation
\* and no event, and every cycle from then on either chooses a level, finds
\* the records equal to its IP set and leaves the state at (its priority,
\* its set), or chooses no level and leaves the records alone. With
\* returnToPriority set and a level fully healthy the first is the case:
\* the records settle on a fully healthy level. This holds from every record
\* list, those left by a ReplaceRecords call that failed part-way included.
C30_Converges ==
    (<>[]~C30_BackendFailed) =>
        <>[](/\ C30_Quiet
             /\ (origin.ReturnToPriority /\ C30_SomeLevelHealthy) => C30_SettledOnLevel
             /\ pc = "checked" =>
                   IF cyc.selected.ok THEN C30_Converged /\ C30_SettledOnLevel
                   ELSE cyc.outcome \in {"no_levels", "no_healthy"})

\* A cycle ended on a ReplaceRecords call that failed in its delete phase:
\* the records hold the selected IPs and a leftover besides.
C30_Witness ==
    /\ pc = "checked"
    /\ ProbedAnew = FALSE
    /\ cyc.outcome = "replace_error"
    /\ rr.err = "delete"
    /\ Range(cyc.selectedIPs) \subseteq Range(collectRecordIPs(records))
    /\ Range(cyc.selectedIPs) # Range(collectRecordIPs(records))


\* ------------------------------------------------ claims on the state entry
\* C32: whenever the origin's state entry is initialized, its CurrentPriority
\* is the priority of some level of the origin's normalized, sorted levels;
\* this holds at every step, so after every cycle outcome.
C32_PriorityOfSomeLevel ==
    (mode = "service" /\ originStatus.Initialized) =>
        \E levels \in {LevelsNow} :
            \E i \in DOMAIN levels : levels[i].Priority = originStatus.CurrentPriority

\* A cycle that found no healthy level initialized the entry: the records
\* matched no level, so the priority written is the seeded maxPriority.
C32_Witness ==
    /\ mode = "service"
    /\ pc = "checked"
    /\ cyc.outcome = "no_healthy"
    /\ ~cyc.statusBefore.Initialized
    /\ originStatus.Initialized
    /\ Len(cyc.listed) > 0
    /\ ~detectCurrentPriority(LevelsNow, cyc.currentIPs).ok


\* The level of the origin's levels with the stored CurrentPriority.
C33_StoredLevel == findPriorityLevel(LevelsNow, originStatus.CurrentPriority)

\* C33: after a cycle that met no backend error and wrote the state entry,
\* the stored CurrentIPs are among the IPs of the level whose priority is the
\* stored CurrentPriority.
C33_IPsWithinLevel ==
    (mode = "service" /\ pc = "checked"
       /\ cyc.outcome \in {"no_healthy", "no_valid", "same", "replaced"}) =>
        /\ C33_StoredLevel.ok
        /\ Range(originStatus.CurrentIPs) \subseteq Range(C33_StoredLevel.level.IPs)

\* C33 for the cycles that selected a target (not part of the claim's
\* settlement; it shows where the claim does hold).
C33_IPsWithinLevelWhenSelected ==
    (mode = "service" /\ pc = "checked" /\ cyc.outcome \in {"same", "replaced"}) =>
        /\ C33_StoredLevel.ok
        /\ Range(originStatus.CurrentIPs) \subseteq Range(C33_StoredLevel.level.IPs)


\* ------------------------------------------------ claims on the current priority
\* The levels whose IP set holds every listed content.
C36_Supersets(levels) ==
    {i \in DOMAIN levels : ContentSet(cyc.listed) \subseteq Range(levels[i].IPs)}

\* C36: the current priority a cycle works with is the highest priority among
\* the levels whose IP set is a superset of the listed contents, when records
\* were listed and there is such a level; otherwise the priority of the state
\* entry when that is initialized, and otherwise maxPriority, the highest
\* priority of the origin's levels.
C36_CurrentPriority ==
    CycleSeen =>
        \E levels \in {LevelsNow} :
            /\ cyc.currentPrioritySet
            /\ \A i \in DOMAIN levels : levels[i].Priority <= cyc.maxPriority
            /\ \E i \in DOMAIN levels : levels[i].Priority = cyc.maxPriority
            /\ IF Len(cyc.listed) > 0 /\ C36_Supersets(levels) # {}
               THEN /\ \E i \in C36_Supersets(levels) : levels[i].Priority = cyc.currentPriority
                    /\ \A i \in C36_Supersets(levels) : levels[i].Priority <= cyc.currentPriority
               ELSE IF cyc.statusBefore.Initialized
               THEN cyc.currentPriority = cyc.statusBefore.CurrentPriority
               ELSE cyc.currentPriority = cyc.maxPriority

\* The listed contents are held by two levels, and the state entry names the
\* lower of them: the higher one is adopted.
C36_Witness ==
    /\ CycleSeen
    /\ Len(cyc.listed) > 0
    /\ Cardinality(C36_Supersets(LevelsNow)) = 2
    /\ cyc.statusBefore.Initialized
    /\ cyc.statusBefore.CurrentPriority < cyc.currentPriority

\* The state entry's priority is kept: records are listed and no level holds them.
C36_KeptFromState ==
    /\ CycleSeen
    /\ Len(cyc.listed) > 0
    /\ C36_Supersets(LevelsNow) = {}
    /\ cyc.statusBefore.Initialized
    /\ cyc.statusBefore.CurrentPriority < cyc.maxPriority
    /\ cyc.currentPriority = cyc.statusBefore.CurrentPriority


\* ------------------------------------------------ claims on the family filter
\* The level the probes choose: fully healthy, with no fully healthy level
\* above it.
C37_ChosenByHealth(levels, i) ==
    /\ FullyHealthy(levels[i])
    /\ \A j \in DOMAIN levels :
          levels[j].Priority > levels[i].Priority => ~FullyHealthy(levels[j])

\* C37: when the level the probes choose holds a wrong-family IP next to
\* right-family ones, the cycle's target is that level with the wrong-family
\* IP left out: the remaining valid IPs at that level's priority.
C37_WrongFamilyOnlyExcluded ==
    (CycleSeen /\ origin.ReturnToPriority) =>
        \A levels \in {LevelsNow} : \A i \in DOMAIN levels :
            LET valid == filterValidIPs(origin.RecordType, levels[i].IPs) IN
            (C37_ChosenByHealth(levels, i) /\ Len(valid) > 0 /\ Len(valid) < Len(levels[i].IPs)) =>
                /\ cyc.selected.ok
                /\ cyc.selected.priority = levels[i].Priority
                /\ cyc.selectedIPs = valid

\* C37, what the code does instead: a level that holds a wrong-family IP is
\* never selected, so the family filter never drops an IP and the exit for an
\* empty filter result is never taken.
C37_FilterDropsNothing ==
    CycleSeen =>
        /\ cyc.outcome # "no_valid"
        /\ cyc.selected.ok => filterValidIPs(origin.RecordType, cyc.selected.ips) = cyc.selected.ips


\* ------------------------------------------------ claims on the requests of a call
\* The requests of a ReplaceRecords call are the fewest that reach D: creates
\* of distinct contents of D that no listed record holds (all of them once the
\* call returns nil), deletes of distinct listed records, each delete that
\* succeeded removing one record, and nothing but creates and deletes.
C38_FewestRequests ==
    /\ \A i \in DOMAIN ops : ops[i].op \in {"create", "delete"}
    /\ \A i, j \in OpIdx("create") : ops[i].content = ops[j].content => i = j
    /\ \A i \in OpIdx("create") : ops[i].content \in DesiredSet \ ContentSet(rr.listed)
    /\ \A i, j \in OpIdx("delete") : ops[i].id = ops[j].id => i = j
    /\ \A i \in OpIdx("delete") : ops[i].id \in IdSet(rr.listed)
    /\ \A i \in OpIdx("delete") : ops[i].ok <=> ops[i].id \notin IdSet(records)
    /\ ReturnedNil =>
          /\ {ops[i].content : i \in OpIdx("create")} = DesiredSet \ ContentSet(rr.listed)
          /\ Len(records) = Len(rr.listed) + Cardinality(OpIdx("create"))
                                - Cardinality(OpIdx("delete"))

\* C38 as stated: a ReplaceRecords call issues the fewest requests, and when
\* every listed record's content is in D it issues creates only, no delete.
C38_CreatesOnlyWhenAllDesired ==
    (mode = "direct" /\ PastList) =>
        /\ C38_FewestRequests
        /\ (ContentSet(rr.listed) \subseteq DesiredSet) => OpIdx("delete") = {}

\* C38 as amended: a ReplaceRecords call issues the fewest requests, and when
\* every listed record's content is in D and no two listed records hold the
\* same content it issues creates only, no delete.
C38_CreatesOnlyWhenAllDesiredOnce ==
    (mode = "direct" /\ PastList) =>
        /\ C38_FewestRequests
        /\ (ContentSet(rr.listed) \subseteq DesiredSet /\ NoDuplicateContent(rr.listed))
              => OpIdx("delete") = {}

\* The call returned nil having listed one record whose content is in D and
\* created the other content of D.
C38_Witness ==
    /\ mode = "direct"
    /\ ReturnedNil
    /\ Len(rr.listed) = 1
    /\ ContentSet(rr.listed) \subseteq DesiredSet
    /\ Cardinality(DesiredSet) = 2
    /\ Cardinality(OpIdx("create")) = 1
    /\ Len(records) = 2


\* ------------------------------------------------ claims on the selector's hysteresis
\* The levels at or below the cycle's current priority that probe healthy.
C39_HealthyAtOrBelow(levels) ==
    {i \in DOMAIN levels : /\ levels[i].Priority <= cyc.currentPriority
                           /\ ProbesHealthy(levels[i])}

\* C39: with returnToPriority=false (the current priority is always set when
\* the selector is called) the selected level's priority is never above the
\* current priority; when the level at the current priority is not healthy
\* the selected level is the highest healthy level at or below it, and
\* nothing is selected when there is none.
C39_NeverAboveCurrent ==
    (CycleSeen /\ ~origin.ReturnToPriority) =>
        \E levels \in {LevelsNow} :
            /\ cyc.currentPrioritySet
            /\ cyc.selected.ok => cyc.selected.priority <= cyc.currentPriority
            /\ cyc.selected.ok <=> C39_HealthyAtOrBelow(levels) # {}
            /\ cyc.selected.ok =>
                  \E i \in C39_HealthyAtOrBelow(levels) :
                      /\ cyc.selected.priority = levels[i].Priority
                      /\ cyc.selected.ips = levels[i].IPs
                      /\ \/ levels[i].Priority = cyc.currentPriority
                         \/ \A j \in C39_HealthyAtOrBelow(levels) :
                               levels[j].Priority <= levels[i].Priority

\* The current level is unhealthy, a level above it is healthy, and the
\* selector returned a level below it.
C39_Witness ==
    /\ CycleSeen
    /\ ~origin.ReturnToPriority
    /\ cyc.selected.ok
    /\ cyc.selected.priority < cyc.currentPriority
    /\ \E i \in DOMAIN LevelsNow :
          /\ LevelsNow[i].Priority > cyc.currentPriority
          /\ ProbesHealthy(LevelsNow[i])

\* The current level is unhealthy, a level above it is healthy, none at or
\* below it is: nothing is selected.
C39_NoTarget ==
    /\ CycleSeen
    /\ ~origin.ReturnToPriority
    /\ ~cyc.selected.ok
    /\ \E i \in DOMAIN LevelsNow :
          /\ LevelsNow[i].Priority > cyc.currentPriority
          /\ ProbesHealthy(LevelsNow[i])


\* ------------------------------------------------ claims on the return to the top level
\* The cycle works from a priority below maxPriority and the top level probes
\* fully healthy.
C40_TopHealthyWhileBelow ==
    /\ CycleSeen
    /\ cyc.currentPriority < cyc.maxPriority
    /\ ProbesHealthy(LevelsNow[1])

\* The level at the cycle's current priority does not probe healthy.
C40_CurrentDegraded ==
    \A i \in DOMAIN LevelsNow :
        LevelsNow[i].Priority = cyc.currentPriority => ~ProbesHealthy(LevelsNow[i])

\* The cycle selects the top level, and when it ends without a backend error
\* the records and the state entry are the top level's.
C40_ReturnsToTop ==
    /\ cyc.selected.ok
    /\ cyc.selected.priority = cyc.maxPriority
    /\ cyc.selected.ips = LevelsNow[1].IPs
    /\ (pc = "checked" /\ cyc.outcome \in {"same", "replaced"}) =>
          /\ ContentSet(records) = Range(LevelsNow[1].IPs)
          /\ originStatus.CurrentPriority = cyc.maxPriority

C40_Returned ==
    /\ C40_TopHealthyWhileBelow
    /\ origin.ReturnToPriority
    /\ cyc.statusBefore.Initialized
    /\ cyc.statusBefore.CurrentPriority < cyc.maxPriority
    /\ pc = "checked"
    /\ cyc.outcome = "replaced"


\* ------------------------------------------------ claims on the order of notifications
\* The Notify call of the goroutine has started.
C35_Started(call) == call \in {"running", "returned"}

\* C35: of two fan-outs of one origin in flight, the Notify call to a notifier
\* for the later event has not started unless the Notify call to that notifier
\* for the earlier event has started.
C35_NotifyStartsInOrder ==
    \A k, m \in DOMAIN events :
        (k < m /\ events[k].by = events[m].by) =>
            \A n \in DOMAIN events[m].calls :
                C35_Started(events[m].calls[n]) => C35_Started(events[k].calls[n])

\* C35, what does hold: the goroutines of the earlier event were started
\* (the go statements ran) before the later event was made, so when the
\* later fan-out is in flight the earlier one has left sendNotifications.
C35_HandedOverInOrder ==
    \A k, m \in DOMAIN events :
        (k < m /\ events[k].by = events[m].by) => ~events[k].fresh


\* ---------------------------------------------------------------- C31
\* The origin whose cycle takes the step: the holder of checkMutex.
C31_Cycle(held) == cfgOrigins[held]

C31_Entry(statuses, o) == IF originKey(o) \in DOMAIN statuses THEN <<statuses[originKey(o)]>> ELSE <<>>

\* The records under an origin's own (name, type), in the zone it names.
C31_OwnPlace(o) == <<zoneIDMap[o.ZoneName], o.Name, o.RecordType>>

C31_EntryKept(held) == \A j \in DOMAIN cfgOrigins : cfgOrigins[j] # C31_Cycle(held) => C31_Entry(originStatusMap', cfgOrigins[j]) = C31_Entry(originStatusMap, cfgOrigins[j])

C31_RecordsKept(held) == \A j \in DOMAIN cfgOrigins : cfgOrigins[j] # C31_Cycle(held) => zoneRecords'[C31_OwnPlace(cfgOrigins[j])] = zoneRecords[C31_OwnPlace(cfgOrigins[j])]

\* C31: a step of a cycle of one origin (from taking checkMutex to releasing
\* it, whatever the cycle's outcome) leaves the state entry of every origin
\* with another (zone, name, type) as it was, present or absent, and leaves
\* the records under that origin's (name, type) as they were.
C31_CycleWritesOwnOnly == [][checkMutex' # checkMutex => \A held \in {checkMutex, checkMutex'} \ {0} : C31_EntryKept(held) /\ C31_RecordsKept(held)]_vars

\* The record half of C31 alone.
C31_CycleKeepsOthersRecords == [][checkMutex' # checkMutex => \A held \in {checkMutex, checkMutex'} \ {0} : C31_RecordsKept(held)]_vars

C31_KeysDiffer == \A i, j \in DOMAIN cfgOrigins : cfgOrigins[i] # cfgOrigins[j] => originKey(cfgOrigins[i]) # originKey(cfgOrigins[j])

\* Where the configured origins have different keys, both halves.
C31_CycleWritesOwnOnlyWhenKeysDiffer == [][(C31_KeysDiffer /\ checkMutex' # checkMutex) => \A held \in {checkMutex, checkMutex'} \ {0} : C31_EntryKept(held) /\ C31_RecordsKept(held)]_vars

\* A cycle has written an entry and records while another origin has its own.
C31_TwoOriginsWritten ==
    /\ C31_KeysDiffer
    /\ Cardinality(DOMAIN originStatusMap) = 2
    /\ \E key \in DOMAIN originStatusMap : originStatusMap[key].Initialized
    /\ \E key \in DOMAIN originStatusMap : ~originStatusMap[key].Initialized
    /\ \E place \in Places : zoneRecords[place] # {}

\* ---------------------------------------------------------------- C34
\* C34: configured origins with different (zone, name, type) have different
\* keys; the client map has one key per configured triple; and once every
\* configured origin has its state entry, the store has one entry per
\* configured triple.
C34_OneKeyPerOrigin ==
    /\ \A i, j \in DOMAIN cfgOrigins : cfgOrigins[i] # cfgOrigins[j] => originKey(cfgOrigins[i]) # originKey(cfgOrigins[j])
    /\ Cardinality(DOMAIN dnsClients) = Cardinality(Range(cfgOrigins))
    /\ (\A i \in DOMAIN cfgOrigins : originKey(cfgOrigins[i]) \in DOMAIN originStatusMap) => Cardinality(DOMAIN originStatusMap) = Cardinality(Range(cfgOrigins))

\* The store never holds a key of no configured origin, nor more entries
\* than configured triples.
C34_EntriesOfOriginsOnly ==
    /\ DOMAIN originStatusMap \subseteq {originKey(cfgOrigins[i]) : i \in DOMAIN cfgOrigins}
    /\ Cardinality(DOMAIN originStatusMap) <= Cardinality(Range(cfgOrigins))
    /\ DOMAIN dnsClients = {originKey(cfgOrigins[i]) : i \in DOMAIN cfgOrigins}

\* Two configured triples with one key, both registered, one entry.
C34_SharedEntry ==
    /\ Cardinality(Range(cfgOrigins)) = 2
    /\ \A i \in DOMAIN cfgOrigins : originKey(cfgOrigins[i]) \in DOMAIN originStatusMap
    /\ Cardinality(DOMAIN originStatusMap) = 1


\* The write at the end of a cycle alone: updateOriginStatus on an entry
\* that is there.
C31_FinishWritesOwnOnly == [][(checkMutex # 0 /\ checkMutex' = 0) => \A j \in DOMAIN cfgOrigins : (cfgOrigins[j] # C31_Cycle(checkMutex) /\ originKey(cfgOrigins[j]) \in DOMAIN originStatusMap /\ originStatusMap[originKey(cfgOrigins[j])].Initialized) => C31_Entry(originStatusMap', cfgOrigins[j]) = C31_Entry(originStatusMap, cfgOrigins[j])]_vars

====
